---- MODULE Spec2Model ----
(***************************************************************************)
(* Model of the earnings scanner: EarningsScanner.validate_stock,          *)
(* adjust_thresholds_based_on_spy, scan_earnings / analyze_ticker,         *)
(* check_mc_overestimate and fetch_earnings_data                           *)
(* (src/cli_scanner/core/scanner.py), and OptionsAnalyzer                  *)
(* (src/cli_scanner/core/analyzer.py).                                     *)
(*                                                                         *)
(* Numbers are scaled to integers:                                         *)
(*   prices, straddles        cents                                        *)
(*   term-structure slope     1e-4            (-0.004 is -40)              *)
(*   IV/RV ratios, thresholds hundredths      (1.25 is 125)                *)
(*   deltas                   hundredths      (0.57 is 57)                 *)
(*   volume                   thousand shares (1,000,000 is 1000)          *)
(*   win rate                 percent                                      *)
(*   expected_move            hundredths of a percent ("5.20%" is 520)     *)
(*   expected_move_dollars    1e-6 dollars    (0.90 is 900000)             *)
(*   volatilities             hundredths      (0.40 is 40)                 *)
(*   annualized variances     1e-4            (0.16 is 1600)               *)
(*   expiration dates         days from today (today is 0)                 *)
(***************************************************************************)
EXTENDS Integers, Sequences, FiniteSets, TLC

VARIABLES
    iv_rv_pass_threshold,       \* self.iv_rv_pass_threshold
    iv_rv_near_miss_threshold,  \* self.iv_rv_near_miss_threshold
    last_adjust,                \* outcome of the adjustment that has just run
    vs,                         \* the locals of the validate_stock call in progress
    \* scan_earnings / analyze_ticker
    main_pc,                    \* where the calling thread is
    entry,                      \* "scan" or "analyze": the call in progress
    workers,                    \* the workers argument of scan_earnings
    tasks,                      \* one validate_stock call per candidate
    next_i,                     \* index of the candidate the caller handles next
    adjust_calls,               \* threshold adjustments run by the call in progress
    recommended,                \* the three values scan_earnings returns
    near_misses,
    stock_metrics,
    earnings_call,              \* the last fetch_earnings_data call
    \* check_mc_overestimate
    driver_lock,                \* self._driver_lock: 0 is None, else a Lock
    lock_holder,                \* for each Lock ever created, the thread holding it
    driver,                     \* self._driver: "None" or "alive"
    mc_pc,                      \* where each calling thread is
    my_lock,                    \* the Lock each thread's with statement took
    retries,                    \* the local retries of each call
    fetches,                    \* page fetches made by each call
    reinits,                    \* browser restarts each call made after failures
    mc_result,                  \* what each thread's call is returning
    \* OptionsAnalyzer
    ts_call,                    \* the last build_term_structure call and query
    rec_call,                   \* the last compute_recommendation call
    fd_call,                    \* the last filter_dates call
    vol_call,                   \* the last yang_zhang_volatility call
    warnings_shown,             \* self.warnings_shown
    warnings                    \* the warnings the last call emitted

threshold_vars == <<iv_rv_pass_threshold, iv_rv_near_miss_threshold>>

validate_vars == <<last_adjust, vs>>

scan_vars ==
    <<main_pc, entry, workers, tasks, next_i, adjust_calls, recommended,
      near_misses, stock_metrics>>

earnings_vars == <<earnings_call>>

mc_vars ==
    <<driver_lock, lock_holder, driver, mc_pc, my_lock, retries, fetches,
      reinits, mc_result>>

estimator_vars == <<vol_call, warnings_shown, warnings>>

analyzer_vars == <<ts_call, rec_call, fd_call, estimator_vars>>

vars ==
    <<threshold_vars, validate_vars, scan_vars, earnings_vars, mc_vars,
      analyzer_vars>>

----------------------------------------------------------------------------
(* floating point: np.nan compares false with everything *)

NaN == -999999

FLt(a, b) == a # NaN /\ b # NaN /\ a < b
FLe(a, b) == a # NaN /\ b # NaN /\ a <= b
FGt(a, b) == a # NaN /\ b # NaN /\ a > b

Abs(x) == IF x < 0 THEN -x ELSE x

----------------------------------------------------------------------------
(* bounds of the model *)

\* threads that call check_mc_overestimate on one scanner
NThreads == 2
\* candidates of one scan
MaxCandidates == 2
\* largest workers argument tried
MaxWorkers == 2

Threads == 1..NThreads

----------------------------------------------------------------------------
(* program constants *)

HardMinPrice == 1000
MaxDaysToExpiry == 9
MinOpenInterest == 2000
SlopeHardMax == -40
MaxDelta == 57
MinExpectedMove == 90
SoftFailPrice == 500
SoftNearPrice == 700
VolumeFail == 1000
VolumeNear == 1500
WinRatePass == 50
WinRateNear == 40
Tier2Slope == -60
DefaultPass == 125
DefaultNearMiss == 100
MaxRetries == 3
WorkerCap == 8

----------------------------------------------------------------------------
(* what the collaborators can answer *)

\* yf_ticker.history(period='1d')['Close'].iloc[-1], first fetch
Prices == {999, 1000}
\* yf_ticker.options: days from today of the listed expirations, in order
OptionDates == {<<>>, <<9>>, <<10>>}
\* open interest of calls + puts at the first expiration
OpenInterests == {1999, 2000}
\* the same price fetched again for the soft check
Prices2 == {499, 699, 700}
\* yf_ticker.history(period='1mo')['Volume'].mean()
Volumes == {999, 1499, 1500}
\* check_mc_overestimate: <<win_rate, quarters>>, <<0, 0>> being its default
MCData == {<<0, 0>>, <<39, 12>>, <<40, 12>>, <<50, 12>>}
\* the expected-move fallback: the straddle recomputed from the first
\* chain, or the fetch raising
Fallbacks ==
    {[ok |-> TRUE, straddle |-> c] : c \in {89, 90}}
      \cup {[ok |-> FALSE, straddle |-> 0]}

TermSlopes == {NaN, -39, -40, -59, -60}
Deltas == {<<50, -50>>, <<57, -57>>, <<58, -50>>, <<50, -58>>}
IvRvRatios == {NaN, 64, 99, 100, 124, 125}

\* the straddle (call mid + put mid) of the first usable expiration
Straddles == {0, 89, 90}
\* the price compute_recommendation fetches for itself
AnalysisPrices == {1000}

\* analyzer.py line 188: the straddle as a percentage of the price with two
\* decimals, "N/A" when the straddle is zero
expected_move_of(straddle, current_price) ==
    IF straddle = 0
    THEN [kind |-> "NA", pct |-> 0]
    ELSE [kind |-> "pct",
          pct |-> (2 * straddle * 10000 + current_price)
                     \div (2 * current_price)]

\* analysis['expected_move'] with the straddle it was made from: "N/A", a
\* percentage string, or something float() cannot parse
ExpectedMoves ==
    {[straddle |-> c, em |-> expected_move_of(c, p)] :
        c \in Straddles, p \in AnalysisPrices}
      \cup {[straddle |-> 90, em |-> [kind |-> "bad", pct |-> 0]]}

\* the result of OptionsAnalyzer.compute_recommendation as validate_stock
\* reads it; has_delta says whether atm_call_delta / atm_put_delta are there
ErrorAnalysis ==
    [error |-> TRUE, term_slope |-> 0, has_delta |-> FALSE,
     atm_call_delta |-> 0, atm_put_delta |-> 0,
     straddle |-> 0, expected_move |-> [kind |-> "NA", pct |-> 0],
     iv30_rv30 |-> 0]

AnalysisResults ==
    {ErrorAnalysis}
      \cup { [error |-> FALSE, term_slope |-> s, has_delta |-> FALSE,
              atm_call_delta |-> 0, atm_put_delta |-> 0,
              straddle |-> em.straddle, expected_move |-> em.em,
              iv30_rv30 |-> r] :
                s \in TermSlopes, em \in ExpectedMoves, r \in IvRvRatios }
      \cup { [error |-> FALSE, term_slope |-> s, has_delta |-> TRUE,
              atm_call_delta |-> d[1], atm_put_delta |-> d[2],
              straddle |-> em.straddle, expected_move |-> em.em,
              iv30_rv30 |-> r] :
                s \in TermSlopes, d \in Deltas, em \in ExpectedMoves,
                r \in IvRvRatios }

\* SPY's iv30_rv30 as adjust_thresholds_based_on_spy reads it
SpyRatios == {NaN, 75, 76, 85, 86, 100, 101}

----------------------------------------------------------------------------
(* validate_stock, one gate after the other *)

EmptyMap == [k \in {} |-> 0]

Put(m, k, v) == (k :> v) @@ m

NoResult ==
    [pass |-> FALSE, near_miss |-> FALSE, has_tier |-> FALSE, tier |-> 0,
     reason |-> <<>>, metrics |-> EmptyMap]

\* the analyzer has not been called
NoCall == [kind |-> "none"]

\* the state a validate_stock call starts in (lines 786-790)
NewFrame ==
    [pc |-> "price", current_price |-> 0, options_dates |-> <<>>,
     days_to_expiry |-> 0, total_oi |-> 0, analysis |-> ErrorAnalysis,
     term_slope |-> 0, metrics |-> EmptyMap,
     failed_checks |-> <<>>, near_miss_checks |-> <<>>,
     trace |-> <<>>, computed |-> EmptyMap, mc_calls |-> 0,
     result |-> NoResult]

IdleFrame == [NewFrame EXCEPT !.pc = "idle"]

\* an early return {'pass': False, 'near_miss': False, 'reason', 'metrics'}
Exit(f, reason, metrics) ==
    [f EXCEPT !.pc = "done",
              !.result = [pass |-> FALSE, near_miss |-> FALSE,
                          has_tier |-> FALSE, tier |-> 0,
                          reason |-> <<reason>>, metrics |-> metrics]]

\* except Exception (lines 1047-1054)
on_exception(f) == Exit(f, "Validation error", EmptyMap)

Saw(f, gate) == [f EXCEPT !.trace = Append(@, gate)]

Computed(f, k, v) == [f EXCEPT !.computed = Put(@, k, v)]

SetMetric(f, k, v) ==
    [f EXCEPT !.metrics = Put(@, k, v), !.computed = Put(@, k, v)]

\* lines 795-805
price_check(f, price) ==
    LET g == SetMetric(Saw([f EXCEPT !.current_price = price], "price"),
                       "price", price)
    IN  IF price < HardMinPrice
        THEN Exit(g, "Price < $10.00", "price" :> price)
        ELSE [g EXCEPT !.pc = "options"]

\* lines 807-815
options_check(f, dates) ==
    LET g == Saw([f EXCEPT !.options_dates = dates], "options")
    IN  IF dates = <<>>
        THEN Exit(g, "No options available", "price" :> g.current_price)
        ELSE [g EXCEPT !.pc = "expiry"]

\* lines 817-826
expiry_check(f) ==
    LET days == f.options_dates[1]
        g == Computed(Saw([f EXCEPT !.days_to_expiry = days], "expiry"),
                      "days_to_expiry", days)
    IN  IF days > MaxDaysToExpiry
        THEN Exit(g, "Next expiration too far",
                  ("price" :> g.current_price) @@ ("days_to_expiry" :> days))
        ELSE [g EXCEPT !.pc = "oi"]

\* lines 828-842
oi_check(f, total_oi) ==
    LET g == Computed(Saw([f EXCEPT !.total_oi = total_oi], "oi"),
                      "open_interest", total_oi)
    IN  IF total_oi < MinOpenInterest
        THEN Exit(g, "Insufficient open interest",
                  ("price" :> g.current_price) @@ ("open_interest" :> total_oi))
        ELSE [g EXCEPT !.pc = "analysis",
                       !.metrics = Put(Put(@, "open_interest", total_oi),
                                       "days_to_expiry", g.days_to_expiry)]

\* lines 844-853
analysis_check(f, analysis) ==
    LET g == Saw([f EXCEPT !.analysis = analysis], "analysis")
    IN  IF analysis.error
        THEN Exit(g, "Analysis error", EmptyMap)
        ELSE [g EXCEPT !.pc = "slope"]

\* lines 855-864
slope_check(f) ==
    LET term_slope == f.analysis.term_slope
        g == SetMetric(Saw([f EXCEPT !.term_slope = term_slope], "slope"),
                       "term_structure", term_slope)
    IN  IF FGt(term_slope, SlopeHardMax)
        THEN Exit(g, "Term structure > -0.004", g.metrics)
        ELSE [g EXCEPT !.pc = "delta"]

\* lines 866-891
delta_check(f) ==
    IF f.analysis.has_delta
    THEN LET call_delta == f.analysis.atm_call_delta
             put_delta == f.analysis.atm_put_delta
             g == SetMetric(SetMetric(Saw(f, "delta"),
                                      "atm_call_delta", call_delta),
                            "atm_put_delta", put_delta)
         IN  IF call_delta > MaxDelta \/ Abs(put_delta) > MaxDelta
             THEN Exit(g, "ATM options have delta > 0.57", g.metrics)
             ELSE [g EXCEPT !.pc = "move"]
    ELSE [f EXCEPT !.pc = "move"]

\* lines 899-921: the percentage parsed, dollars = price * pct / 100
move_check(f) ==
    LET pct == f.analysis.expected_move.pct
        expected_move_dollars == f.current_price * pct
        g == SetMetric(SetMetric(Saw(f, "move"),
                                 "expected_move_dollars", expected_move_dollars),
                       "expected_move_pct", pct)
    IN  IF expected_move_dollars < MinExpectedMove * 10000
        THEN Exit(g, "Expected move < $0.90", g.metrics)
        ELSE [g EXCEPT !.pc = "soft_price"]

\* lines 922-951: the fallback from the straddle of the first chain;
\* expected_move_pct is kept to hundredths of a percent
move_fallback(f, straddle) ==
    LET expected_move_dollars == straddle * 10000
        g == SetMetric(SetMetric(Saw(f, "move"),
                                 "expected_move_dollars", expected_move_dollars),
                       "expected_move_pct",
                       (straddle * 10000) \div f.current_price)
    IN  IF straddle < MinExpectedMove
        THEN Exit(g, "Expected move (fallback) < $0.90", g.metrics)
        ELSE [g EXCEPT !.pc = "soft_price"]

\* lines 952-953: the fallback itself failed, only a warning
move_fallback_failed(f) == [f EXCEPT !.pc = "soft_price"]

\* lines 893-953; fallback is what the second option_chain fetch gives:
\* [ok |-> TRUE, straddle |-> cents] or [ok |-> FALSE] when it raises
expected_move_check(f, fallback) ==
    CASE f.analysis.expected_move.kind = "NA" -> [f EXCEPT !.pc = "soft_price"]
      [] f.analysis.expected_move.kind = "pct" -> move_check(f)
      [] f.analysis.expected_move.kind = "bad" ->
            IF fallback.ok THEN move_fallback(f, fallback.straddle)
            ELSE move_fallback_failed(f)

\* lines 955-962
soft_price_check(f, price) ==
    LET g == SetMetric(Saw([f EXCEPT !.current_price = price], "soft_price"),
                       "price", price)
    IN  [g EXCEPT !.pc = "soft_volume",
                  !.failed_checks =
                      IF price < SoftFailPrice
                      THEN Append(@, "Price < $5.00") ELSE @,
                  !.near_miss_checks =
                      IF price >= SoftFailPrice /\ price < SoftNearPrice
                      THEN Append(@, "Price < $7.00") ELSE @]

\* lines 964-971
soft_volume_check(f, avg_volume) ==
    LET g == SetMetric(Saw(f, "soft_volume"), "volume", avg_volume)
    IN  [g EXCEPT !.pc = "winrate",
                  !.failed_checks =
                      IF avg_volume < VolumeFail
                      THEN Append(@, "Volume < 1M") ELSE @,
                  !.near_miss_checks =
                      IF avg_volume >= VolumeFail /\ avg_volume < VolumeNear
                      THEN Append(@, "Volume < 1.5M") ELSE @]

\* lines 973-988 with an answer over 0 quarters taken as no answer
winrate_check_unless_no_quarters(f, mc_data) ==
    LET win_rate == mc_data[1]
        quarters == mc_data[2]
        g == SetMetric(SetMetric(Saw(f, "winrate"), "win_rate", win_rate),
                       "win_quarters", quarters)
    IN  [g EXCEPT !.pc = "ivrv",
                  !.mc_calls = @ + 1,
                  !.failed_checks =
                      IF quarters > 0 /\ win_rate < WinRateNear
                      THEN Append(@, "Winrate < 40%") ELSE @,
                  !.near_miss_checks =
                      IF quarters > 0 /\ win_rate < WinRatePass
                         /\ win_rate >= WinRateNear
                      THEN Append(@, "Winrate < 50%") ELSE @]

\* lines 973-988: the Market Chameleon check with what the call returned
winrate_check(f, mc_data) ==
    LET win_rate == mc_data[1]
        quarters == mc_data[2]
        g == SetMetric(SetMetric(Saw(f, "winrate"), "win_rate", win_rate),
                       "win_quarters", quarters)
    IN  [g EXCEPT !.pc = "ivrv",
                  !.mc_calls = @ + 1,
                  !.failed_checks =
                      IF win_rate < WinRatePass /\ ~(win_rate >= WinRateNear)
                      THEN Append(@, "Winrate < 40%") ELSE @,
                  !.near_miss_checks =
                      IF win_rate < WinRatePass /\ win_rate >= WinRateNear
                      THEN Append(@, "Winrate < 50%") ELSE @]

\* lines 989-992: the check skipped, placeholders stored
winrate_skip(f) ==
    LET g == SetMetric(SetMetric(f, "win_rate", 0), "win_quarters", 0)
    IN  [g EXCEPT !.pc = "ivrv"]

\* lines 973-992 without the test of line 974
winrate_gate_always_calls(f, mc_data) == winrate_check(f, mc_data)

\* lines 973-992: check_mc_overestimate is called only if nothing failed
winrate_gate(f, mc_data) ==
    IF f.failed_checks = <<>> THEN winrate_check(f, mc_data)
    ELSE winrate_skip(f)

\* lines 994-1002 with the thresholds of __init__ whatever self holds
ivrv_check_fixed_thresholds(f, pass_threshold, near_miss_threshold) ==
    LET iv_rv_ratio == f.analysis.iv30_rv30
        g == SetMetric(Saw(f, "ivrv"), "iv_rv_ratio", iv_rv_ratio)
    IN  [g EXCEPT !.pc = "classify",
                  !.failed_checks =
                      IF FLt(iv_rv_ratio, DefaultNearMiss)
                      THEN Append(@, "IV/RV ratio < near miss") ELSE @,
                  !.near_miss_checks =
                      IF ~FLt(iv_rv_ratio, DefaultNearMiss)
                         /\ FLt(iv_rv_ratio, DefaultPass)
                      THEN Append(@, "IV/RV ratio < pass") ELSE @]

\* lines 994-1002, with the thresholds as read from self
ivrv_check(f, pass_threshold, near_miss_threshold) ==
    LET iv_rv_ratio == f.analysis.iv30_rv30
        g == SetMetric(Saw(f, "ivrv"), "iv_rv_ratio", iv_rv_ratio)
    IN  [g EXCEPT !.pc = "classify",
                  !.failed_checks =
                      IF FLt(iv_rv_ratio, near_miss_threshold)
                      THEN Append(@, "IV/RV ratio < near miss") ELSE @,
                  !.near_miss_checks =
                      IF ~FLt(iv_rv_ratio, near_miss_threshold)
                         /\ FLt(iv_rv_ratio, pass_threshold)
                      THEN Append(@, "IV/RV ratio < pass") ELSE @]

\* mutant: near misses forgotten
is_passing_ignoring_near_misses(f) == Len(f.failed_checks) = 0

\* line 1007
is_passing(f) == Len(f.failed_checks) = 0 /\ Len(f.near_miss_checks) = 0

\* mutant: Tier 2 without the stricter slope
is_near_miss_good_term_any_slope(f) ==
    /\ Len(f.failed_checks) = 0
    /\ Len(f.near_miss_checks) > 0

\* lines 1010-1012
is_near_miss_good_term(f) ==
    /\ Len(f.failed_checks) = 0
    /\ Len(f.near_miss_checks) > 0
    /\ FLe(f.term_slope, Tier2Slope)

\* lines 1018-1032
tier_of(f) ==
    IF is_passing(f) THEN 1 ELSE IF is_near_miss_good_term(f) THEN 2 ELSE 0

\* mutant: everything that is not a tier is a near miss
is_near_miss_despite_failures(f) ==
    ~(is_passing(f) \/ is_near_miss_good_term(f))

\* line 1032
is_near_miss(f) ==
    IF is_passing(f) \/ is_near_miss_good_term(f)
    THEN FALSE
    ELSE Len(f.failed_checks) = 0

\* lines 1038-1043: " | ".join of the failed checks, else of the near
\* misses, else the tier's name
reason_of(f) ==
    IF f.failed_checks # <<>> THEN f.failed_checks
    ELSE IF f.near_miss_checks # <<>> THEN f.near_miss_checks
    ELSE IF is_passing(f) THEN <<"Tier 1 Trade">>
    ELSE IF tier_of(f) = 2 THEN <<"Tier 2 Trade">>
    ELSE <<"Near Miss">>

\* mutant: only Tier 1 passes
classify_tier2_fails(f) ==
    LET g == SetMetric(f, "tier", tier_of(f))
    IN  [g EXCEPT !.pc = "done",
                  !.result = [pass |-> is_passing(f),
                              near_miss |-> is_near_miss(f),
                              has_tier |-> TRUE,
                              tier |-> tier_of(f),
                              reason |-> reason_of(f),
                              metrics |-> g.metrics]]

\* lines 1004-1045
classify(f) ==
    LET g == SetMetric(f, "tier", tier_of(f))
    IN  [g EXCEPT !.pc = "done",
                  !.result = [pass |-> is_passing(f) \/ tier_of(f) = 2,
                              near_miss |-> is_near_miss(f),
                              has_tier |-> TRUE,
                              tier |-> tier_of(f),
                              reason |-> reason_of(f),
                              metrics |-> g.metrics]]

----------------------------------------------------------------------------
(* adjust_thresholds_based_on_spy *)

\* lines 1069-1082 taking 0.35, 0.25, 0.15 off the pair self holds
spy_thresholds_relaxing_again(spy_iv_rv, pass_threshold, near_miss_threshold) ==
    IF FLe(spy_iv_rv, 75) THEN <<pass_threshold - 35, near_miss_threshold - 35>>
    ELSE IF FLe(spy_iv_rv, 85)
    THEN <<pass_threshold - 25, near_miss_threshold - 25>>
    ELSE IF FLe(spy_iv_rv, 100)
    THEN <<pass_threshold - 15, near_miss_threshold - 15>>
    ELSE <<pass_threshold, near_miss_threshold>>

\* lines 1069-1082: the pair of thresholds after a successful SPY analysis
spy_thresholds(spy_iv_rv, pass_threshold, near_miss_threshold) ==
    IF FLe(spy_iv_rv, 75) THEN <<90, 65>>
    ELSE IF FLe(spy_iv_rv, 85) THEN <<100, 75>>
    ELSE IF FLe(spy_iv_rv, 100) THEN <<110, 85>>
    ELSE <<pass_threshold, near_miss_threshold>>

\* mutant: a failed SPY analysis puts the defaults back
adjust_resetting_on_failure(outcome, pass_threshold, near_miss_threshold) ==
    IF outcome.kind = "ok"
    THEN spy_thresholds(outcome.ratio, pass_threshold, near_miss_threshold)
    ELSE <<DefaultPass, DefaultNearMiss>>

\* lines 1061-1090: outcome.kind is "ok" (an analysis with iv30_rv30),
\* "error" (an 'error' result) or "raise" (an exception, caught)
adjust_thresholds_based_on_spy(outcome, pass_threshold, near_miss_threshold) ==
    IF outcome.kind = "ok"
    THEN spy_thresholds(outcome.ratio, pass_threshold, near_miss_threshold)
    ELSE <<pass_threshold, near_miss_threshold>>

SpyOutcomes ==
    {[kind |-> "ok", ratio |-> r] : r \in SpyRatios}
      \cup {[kind |-> "error", ratio |-> 0], [kind |-> "raise", ratio |-> 0]}

NoAdjust == [kind |-> "none", ratio |-> 0]

----------------------------------------------------------------------------
(* one scanner used cycle after cycle: adjust the thresholds, then validate *)
(* candidates one at a time (analyze_ticker; scan_earnings with workers=0)  *)

\* EarningsScanner.__init__ and the class attributes
Init ==
    /\ iv_rv_pass_threshold = DefaultPass
    /\ iv_rv_near_miss_threshold = DefaultNearMiss
    /\ last_adjust = NoAdjust
    /\ vs = IdleFrame
    /\ main_pc = "idle"
    /\ entry = "scan"
    /\ workers = 0
    /\ tasks = <<>>
    /\ next_i = 1
    /\ adjust_calls = 0
    /\ recommended = <<>>
    /\ near_misses = <<>>
    /\ stock_metrics = EmptyMap
    /\ earnings_call = NoCall
    /\ driver_lock = 0
    /\ lock_holder = [l \in Threads |-> 0]
    /\ driver = "None"
    /\ mc_pc = [t \in Threads |-> "idle"]
    /\ my_lock = [t \in Threads |-> 0]
    /\ retries = [t \in Threads |-> 0]
    /\ fetches = [t \in Threads |-> 0]
    /\ reinits = [t \in Threads |-> 0]
    /\ mc_result = [t \in Threads |-> <<0, 0>>]
    /\ ts_call = NoCall
    /\ rec_call = NoCall
    /\ fd_call = NoCall
    /\ vol_call = NoCall
    /\ warnings_shown = FALSE
    /\ warnings = <<>>

Thresholds == <<iv_rv_pass_threshold, iv_rv_near_miss_threshold>>

KeepThresholds == UNCHANGED <<iv_rv_pass_threshold, iv_rv_near_miss_threshold>>

\* scanner.py 1107 / 1161
Adjust ==
    /\ vs.pc = "idle"
    /\ \E outcome \in SpyOutcomes :
         LET t == adjust_thresholds_based_on_spy(outcome, iv_rv_pass_threshold,
                                                 iv_rv_near_miss_threshold)
         IN  /\ iv_rv_pass_threshold' = t[1]
             /\ iv_rv_near_miss_threshold' = t[2]
             /\ last_adjust' = outcome
    /\ vs' = [vs EXCEPT !.pc = "ready"]
    /\ UNCHANGED <<scan_vars, earnings_vars, mc_vars, analyzer_vars>>

\* scanner.py 1110 / 1248: validate_stock is entered
StartValidate ==
    /\ vs.pc \in {"ready", "done"}
    /\ vs' = NewFrame
    /\ last_adjust' = NoAdjust
    /\ KeepThresholds
    /\ UNCHANGED <<scan_vars, earnings_vars, mc_vars, analyzer_vars>>

\* the cycle ends: scan_earnings / analyze_ticker returns
EndCycle ==
    /\ vs.pc \in {"ready", "done"}
    /\ vs' = IdleFrame
    /\ last_adjust' = NoAdjust
    /\ KeepThresholds
    /\ UNCHANGED <<scan_vars, earnings_vars, mc_vars, analyzer_vars>>

Step(frame) ==
    /\ vs' = frame
    /\ UNCHANGED last_adjust
    /\ KeepThresholds
    /\ UNCHANGED <<scan_vars, earnings_vars, mc_vars, analyzer_vars>>

PriceGate ==
    /\ vs.pc = "price"
    /\ \/ \E price \in Prices : Step(price_check(vs, price))
       \/ Step(on_exception(vs))

OptionsGate ==
    /\ vs.pc = "options"
    /\ \/ \E dates \in OptionDates : Step(options_check(vs, dates))
       \/ Step(on_exception(vs))

ExpiryGate ==
    /\ vs.pc = "expiry"
    /\ Step(expiry_check(vs))

OpenInterestGate ==
    /\ vs.pc = "oi"
    /\ \/ \E total_oi \in OpenInterests : Step(oi_check(vs, total_oi))
       \/ Step(on_exception(vs))

AnalysisGate ==
    /\ vs.pc = "analysis"
    /\ \E analysis \in AnalysisResults : Step(analysis_check(vs, analysis))

SlopeGate ==
    /\ vs.pc = "slope"
    /\ Step(slope_check(vs))

DeltaGate ==
    /\ vs.pc = "delta"
    /\ Step(delta_check(vs))

MoveGate ==
    /\ vs.pc = "move"
    /\ \E fallback \in Fallbacks : Step(expected_move_check(vs, fallback))

SoftPrice ==
    /\ vs.pc = "soft_price"
    /\ \/ \E price \in Prices2 : Step(soft_price_check(vs, price))
       \/ Step(on_exception(vs))

SoftVolume ==
    /\ vs.pc = "soft_volume"
    /\ \/ \E avg_volume \in Volumes : Step(soft_volume_check(vs, avg_volume))
       \/ Step(on_exception(vs))

WinRate ==
    /\ vs.pc = "winrate"
    /\ \E mc_data \in MCData : Step(winrate_gate(vs, mc_data))

IvRv ==
    /\ vs.pc = "ivrv"
    /\ Step(ivrv_check(vs, iv_rv_pass_threshold, iv_rv_near_miss_threshold))

Classify ==
    /\ vs.pc = "classify"
    /\ Step(classify(vs))

Next ==
    \/ Adjust
    \/ StartValidate
    \/ EndCycle
    \/ PriceGate
    \/ OptionsGate
    \/ ExpiryGate
    \/ OpenInterestGate
    \/ AnalysisGate
    \/ SlopeGate
    \/ DeltaGate
    \/ MoveGate
    \/ SoftPrice
    \/ SoftVolume
    \/ WinRate
    \/ IvRv
    \/ Classify

Spec == Init /\ [][Next]_vars

----------------------------------------------------------------------------
(* scan_earnings and analyze_ticker *)

\* everything the collaborators answer for one candidate during one call;
\* raises_at names the fetch that raises, hangs a validation that never ends
Tier1Input ==
    [raises_at |-> "none", hangs |-> FALSE, price |-> 1200, dates |-> <<9>>,
     total_oi |-> 2000,
     analysis |-> [error |-> FALSE, term_slope |-> -45, has_delta |-> FALSE,
                   atm_call_delta |-> 0, atm_put_delta |-> 0,
                   straddle |-> 120,
                   expected_move |-> [kind |-> "pct", pct |-> 1000],
                   iv30_rv30 |-> 130],
     fallback |-> [ok |-> FALSE, straddle |-> 0],
     price2 |-> 1200, avg_volume |-> 2000, mc_data |-> <<55, 12>>]

ScanInputs ==
    { Tier1Input,
      [Tier1Input EXCEPT !.analysis.iv30_rv30 = 110,
                         !.analysis.term_slope = -65],
      [Tier1Input EXCEPT !.analysis.iv30_rv30 = 99],
      [Tier1Input EXCEPT !.mc_data = <<35, 12>>],
      [Tier1Input EXCEPT !.price = 999],
      [Tier1Input EXCEPT !.raises_at = "oi"],
      [Tier1Input EXCEPT !.analysis = ErrorAnalysis],
      [Tier1Input EXCEPT !.hangs = TRUE] }

\* lines 785-1054: the next gate of validate_stock on these answers
validate_step(f, inp, pass_threshold, near_miss_threshold) ==
    IF inp.raises_at = f.pc THEN on_exception(f)
    ELSE CASE f.pc = "price" -> price_check(f, inp.price)
           [] f.pc = "options" -> options_check(f, inp.dates)
           [] f.pc = "expiry" -> expiry_check(f)
           [] f.pc = "oi" -> oi_check(f, inp.total_oi)
           [] f.pc = "analysis" -> analysis_check(f, inp.analysis)
           [] f.pc = "slope" -> slope_check(f)
           [] f.pc = "delta" -> delta_check(f)
           [] f.pc = "move" -> expected_move_check(f, inp.fallback)
           [] f.pc = "soft_price" -> soft_price_check(f, inp.price2)
           [] f.pc = "soft_volume" -> soft_volume_check(f, inp.avg_volume)
           [] f.pc = "winrate" -> winrate_gate(f, inp.mc_data)
           [] f.pc = "ivrv" ->
                ivrv_check(f, pass_threshold, near_miss_threshold)
           [] f.pc = "classify" -> classify(f)

RECURSIVE run_until(_, _, _, _, _)
run_until(f, inp, pass_threshold, near_miss_threshold, stops) ==
    IF f.pc \in stops THEN f
    ELSE CHOOSE r \in
             { run_until(g, inp, pass_threshold, near_miss_threshold, stops) :
                 g \in {validate_step(f, inp, pass_threshold,
                                      near_miss_threshold)} } : TRUE

\* validate_stock up to the point where it reads the thresholds (or returns)
validate_begin(inp) == run_until(NewFrame, inp, 0, 0, {"ivrv", "done"})

\* ... and from there to its return
validate_end(f, inp, pass_threshold, near_miss_threshold) ==
    run_until(f, inp, pass_threshold, near_miss_threshold, {"done"})

\* the candidate lists a scan can be given; the ticker of a candidate is its
\* index in the list
CandidateLists == UNION {[1..n -> ScanInputs] : n \in 0..MaxCandidates}

\* got is what the caller has had from the call: "pending" before it asks,
\* "filed" once it has the result, "timeout" when result(timeout=60) raised
NewTask(inp) ==
    [inp |-> inp, st |-> "queued", vs |-> NewFrame, got |-> "pending"]

Running == {i \in DOMAIN tasks : tasks[i].st = "running"}

\* line 1215
effective_workers(w) == IF w < WorkerCap THEN w ELSE WorkerCap

\* mutant: the thresholds are refreshed again while candidates are handled
adjusts_at_every_candidate(pc) == pc \in {"adjust", "collect", "sequential"}

\* lines 1107 and 1161: where the calling thread adjusts the thresholds
adjusts_at(pc) == pc = "adjust"

\* line 1218: leaving the with block waits for every submitted future
executor_exit_ready(ts) == \A i \in DOMAIN ts : ts[i].st = "done"

\* mutant: the metrics of a near miss are not kept
record_result_without_near_miss_metrics(rec, nm, sm, ticker, result) ==
    IF result.pass
    THEN <<Append(rec, ticker), nm, Put(sm, ticker, result.metrics)>>
    ELSE IF result.near_miss
    THEN <<rec, Append(nm, <<ticker, result.reason>>), sm>>
    ELSE <<rec, nm, sm>>

\* lines 1230-1235 and 1251-1256: <<recommended, near_misses, stock_metrics>>
\* after the result of one ticker
record_result(rec, nm, sm, ticker, result) ==
    IF result.pass
    THEN <<Append(rec, ticker), nm, Put(sm, ticker, result.metrics)>>
    ELSE IF result.near_miss
    THEN <<rec, Append(nm, <<ticker, result.reason>>),
           Put(sm, ticker, result.metrics)>>
    ELSE <<rec, nm, sm>>

\* mutant: the sequential loop stops at the first candidate that fails
after_stock_breaking_on_failure(i, result) ==
    IF result.pass \/ result.near_miss THEN i + 1 ELSE Len(tasks) + 1

\* lines 1246-1257: whatever the result, the loop goes on to the next stock
after_stock(i, result) == i + 1

Record(ticker, result) ==
    LET r == record_result(recommended, near_misses, stock_metrics,
                           ticker, result)
    IN  /\ recommended' = r[1]
        /\ near_misses' = r[2]
        /\ stock_metrics' = r[3]

KeepResults == UNCHANGED <<recommended, near_misses, stock_metrics>>

ScanFrame ==
    UNCHANGED <<validate_vars, earnings_vars, mc_vars, analyzer_vars>>

\* lines 1144-1157: scan_earnings is called
ScanEnter ==
    /\ main_pc = "idle"
    /\ \E w \in 0..MaxWorkers : workers' = w
    /\ entry' = "scan"
    /\ main_pc' = "adjust"
    /\ adjust_calls' = 0
    /\ tasks' = <<>>
    /\ next_i' = 1
    /\ recommended' = <<>>
    /\ near_misses' = <<>>
    /\ stock_metrics' = EmptyMap
    /\ KeepThresholds
    /\ ScanFrame

\* lines 1092-1104: analyze_ticker is called
AnalyzeEnter ==
    /\ main_pc = "idle"
    /\ workers' = 0
    /\ entry' = "analyze"
    /\ main_pc' = "adjust"
    /\ adjust_calls' = 0
    /\ tasks' = <<>>
    /\ next_i' = 1
    /\ recommended' = <<>>
    /\ near_misses' = <<>>
    /\ stock_metrics' = EmptyMap
    /\ KeepThresholds
    /\ ScanFrame

\* lines 1107 and 1161
ScanAdjust ==
    /\ adjusts_at(main_pc)
    /\ \E outcome \in SpyOutcomes :
         LET t == adjust_thresholds_based_on_spy(outcome, iv_rv_pass_threshold,
                                                 iv_rv_near_miss_threshold)
         IN  /\ iv_rv_pass_threshold' = t[1]
             /\ iv_rv_near_miss_threshold' = t[2]
    /\ adjust_calls' = adjust_calls + 1
    /\ main_pc' = IF main_pc = "adjust" THEN "fetch" ELSE main_pc
    /\ UNCHANGED <<entry, workers, tasks, next_i>>
    /\ KeepResults
    /\ ScanFrame

\* lines 1163-1210: the dates and the earnings lists are fetched; a failure
\* of get_scan_dates returns the empty results, failed fetches give no
\* candidates
ScanFetch ==
    /\ main_pc = "fetch"
    /\ entry = "scan"
    /\ \/ /\ main_pc' = "returned"
          /\ UNCHANGED tasks
       \/ \E c \in CandidateLists :
            /\ tasks' = [i \in DOMAIN c |-> NewTask(c[i])]
            /\ main_pc' = IF workers > 0 THEN "collect" ELSE "sequential"
    /\ UNCHANGED <<entry, workers, next_i, adjust_calls>>
    /\ KeepResults
    /\ KeepThresholds
    /\ ScanFrame

\* lines 1104-1110: analyze_ticker validates its one ticker itself
AnalyzeStock ==
    /\ main_pc = "fetch"
    /\ entry = "analyze"
    /\ \E inp \in ScanInputs : tasks' = <<NewTask(inp)>>
    /\ main_pc' = "sequential"
    /\ UNCHANGED <<entry, workers, next_i, adjust_calls>>
    /\ KeepResults
    /\ KeepThresholds
    /\ ScanFrame

\* lines 1218-1220: a pool thread takes the next submitted validate_stock
WorkerStart(i) ==
    /\ workers > 0
    /\ tasks[i].st = "queued"
    /\ \A j \in 1..(i - 1) : tasks[j].st # "queued"
    /\ Cardinality(Running) < effective_workers(workers)
    /\ tasks' = [tasks EXCEPT ![i].st = "running",
                              ![i].vs = validate_begin(tasks[i].inp)]
    /\ UNCHANGED <<main_pc, entry, workers, next_i, adjust_calls>>
    /\ KeepResults
    /\ KeepThresholds
    /\ ScanFrame

\* ... and runs it to its return, reading the thresholds on the way
WorkerFinish(i) ==
    /\ workers > 0
    /\ tasks[i].st = "running"
    /\ ~tasks[i].inp.hangs
    /\ tasks' = [tasks EXCEPT ![i].st = "done",
                              ![i].vs = validate_end(tasks[i].vs, tasks[i].inp,
                                                     iv_rv_pass_threshold,
                                                     iv_rv_near_miss_threshold)]
    /\ UNCHANGED <<main_pc, entry, workers, next_i, adjust_calls>>
    /\ KeepResults
    /\ KeepThresholds
    /\ ScanFrame

\* lines 1224-1239: the caller takes the futures in order; result(timeout=60)
\* gives the result of a finished one and raises for one that is not
Collect ==
    /\ main_pc = "collect"
    /\ next_i <= Len(tasks)
    /\ \/ /\ tasks[next_i].st = "done"
          /\ Record(next_i, tasks[next_i].vs.result)
          /\ tasks' = [tasks EXCEPT ![next_i].got = "filed"]
       \/ /\ tasks[next_i].st # "done"
          /\ KeepResults
          /\ tasks' = [tasks EXCEPT ![next_i].got = "timeout"]
    /\ next_i' = next_i + 1
    /\ UNCHANGED <<main_pc, entry, workers, adjust_calls>>
    /\ KeepThresholds
    /\ ScanFrame

\* the loop over the futures is over
CollectDone ==
    /\ main_pc = "collect"
    /\ next_i > Len(tasks)
    /\ main_pc' = "shutdown"
    /\ UNCHANGED <<entry, workers, tasks, next_i, adjust_calls>>
    /\ KeepResults
    /\ KeepThresholds
    /\ ScanFrame

\* line 1218: the with block of the executor is left
ExecutorExit ==
    /\ main_pc = "shutdown"
    /\ executor_exit_ready(tasks)
    /\ main_pc' = "returned"
    /\ UNCHANGED <<entry, workers, tasks, next_i, adjust_calls>>
    /\ KeepResults
    /\ KeepThresholds
    /\ ScanFrame

\* lines 1110 and 1248: the caller enters validate_stock itself
SeqStart ==
    /\ main_pc = "sequential"
    /\ next_i <= Len(tasks)
    /\ tasks[next_i].st = "queued"
    /\ tasks' = [tasks EXCEPT ![next_i].st = "running",
                              ![next_i].vs = validate_begin(tasks[next_i].inp)]
    /\ UNCHANGED <<main_pc, entry, workers, next_i, adjust_calls>>
    /\ KeepResults
    /\ KeepThresholds
    /\ ScanFrame

\* lines 1248-1257: validate_stock returns and scan_earnings files the result
\* (analyze_ticker, lines 1112-1133, builds its own metrics instead)
SeqFinish ==
    /\ main_pc = "sequential"
    /\ next_i <= Len(tasks)
    /\ tasks[next_i].st = "running"
    /\ ~tasks[next_i].inp.hangs
    /\ LET f == validate_end(tasks[next_i].vs, tasks[next_i].inp,
                             iv_rv_pass_threshold, iv_rv_near_miss_threshold)
       IN  /\ tasks' = [tasks EXCEPT ![next_i].st = "done", ![next_i].vs = f,
                                     ![next_i].got = "filed"]
           /\ IF entry = "scan" THEN Record(next_i, f.result) ELSE KeepResults
           /\ next_i' = after_stock(next_i, f.result)
    /\ UNCHANGED <<main_pc, entry, workers, adjust_calls>>
    /\ KeepThresholds
    /\ ScanFrame

SeqDone ==
    /\ main_pc = "sequential"
    /\ next_i > Len(tasks)
    /\ main_pc' = "returned"
    /\ UNCHANGED <<entry, workers, tasks, next_i, adjust_calls>>
    /\ KeepResults
    /\ KeepThresholds
    /\ ScanFrame

\* the call returns to its caller, which may call again (--forever)
ScanReturn ==
    /\ main_pc = "returned"
    /\ main_pc' = "idle"
    /\ UNCHANGED <<entry, workers, tasks, next_i, adjust_calls>>
    /\ KeepResults
    /\ KeepThresholds
    /\ ScanFrame

NextScan ==
    \/ ScanEnter
    \/ AnalyzeEnter
    \/ ScanAdjust
    \/ ScanFetch
    \/ AnalyzeStock
    \/ \E i \in DOMAIN tasks : WorkerStart(i)
    \/ \E i \in DOMAIN tasks : WorkerFinish(i)
    \/ Collect
    \/ CollectDone
    \/ ExecutorExit
    \/ SeqStart
    \/ SeqFinish
    \/ SeqDone
    \/ ScanReturn

SpecScan == Init /\ [][NextScan]_vars

\* what the calling thread does once it is inside a call
CallerStep ==
    \/ ScanAdjust
    \/ ScanFetch
    \/ AnalyzeStock
    \/ Collect
    \/ CollectDone
    \/ ExecutorExit
    \/ SeqStart
    \/ SeqFinish
    \/ SeqDone

\* what a pool thread does with the i-th submitted call
PoolStep(i) == i \in DOMAIN tasks /\ (WorkerStart(i) \/ WorkerFinish(i))

\* the calling thread and the pool threads keep running: a step that stays
\* possible is taken; a validate_stock that hangs has no step to take
ScanFairness ==
    /\ WF_vars(CallerStep)
    /\ \A i \in 1..MaxCandidates : WF_vars(PoolStep(i))

SpecScanFair == SpecScan /\ ScanFairness

----------------------------------------------------------------------------
(* check_mc_overestimate called from several threads on one scanner *)

DefaultResult == <<0, 0>>

\* the threads that are inside the with block
InSession == {t \in Threads : mc_pc[t] \in {"init", "attempt", "release"}}

\* line 702: self._driver_lock is None
lock_missing(lock) == lock = 0

\* line 720 with <= in the place of <
may_retry_once_more(n) == n <= MaxRetries

\* line 720: while retries < self._max_retries
may_retry(n) == n < MaxRetries

\* a call starts (line 697)
MCCall(t) ==
    /\ mc_pc[t] = "idle"
    /\ mc_pc' = [mc_pc EXCEPT ![t] = "check_lock"]
    /\ UNCHANGED <<driver_lock, lock_holder, driver, my_lock, retries,
                   fetches, reinits, mc_result>>
    /\ UNCHANGED <<threshold_vars, validate_vars, scan_vars, earnings_vars,
                   analyzer_vars>>

\* line 702
MCCheckLock(t) ==
    /\ mc_pc[t] = "check_lock"
    /\ mc_pc' = [mc_pc EXCEPT ![t] =
                    IF lock_missing(driver_lock) THEN "create_lock"
                    ELSE "load_lock"]
    /\ UNCHANGED <<driver_lock, lock_holder, driver, my_lock, retries,
                   fetches, reinits, mc_result>>
    /\ UNCHANGED <<threshold_vars, validate_vars, scan_vars, earnings_vars,
                   analyzer_vars>>

\* line 703: a new Lock, named after the thread that made it, is stored
MCCreateLock(t) ==
    /\ mc_pc[t] = "create_lock"
    /\ driver_lock' = t
    /\ mc_pc' = [mc_pc EXCEPT ![t] = "load_lock"]
    /\ UNCHANGED <<lock_holder, driver, my_lock, retries, fetches,
                   reinits, mc_result>>
    /\ UNCHANGED <<threshold_vars, validate_vars, scan_vars, earnings_vars,
                   analyzer_vars>>

\* line 709: the with statement reads self._driver_lock
MCLoadLock(t) ==
    /\ mc_pc[t] = "load_lock"
    /\ my_lock' = [my_lock EXCEPT ![t] = driver_lock]
    /\ mc_pc' = [mc_pc EXCEPT ![t] = "acquire"]
    /\ UNCHANGED <<driver_lock, lock_holder, driver, retries, fetches,
                   reinits, mc_result>>
    /\ UNCHANGED <<threshold_vars, validate_vars, scan_vars, earnings_vars,
                   analyzer_vars>>

\* line 709: ... and acquires that Lock, waiting while it is held
MCAcquire(t) ==
    /\ mc_pc[t] = "acquire"
    /\ lock_holder[my_lock[t]] = 0
    /\ lock_holder' = [lock_holder EXCEPT ![my_lock[t]] = t]
    /\ mc_pc' = [mc_pc EXCEPT ![t] = "init"]
    /\ UNCHANGED <<driver_lock, driver, my_lock, retries, fetches,
                   reinits, mc_result>>
    /\ UNCHANGED <<threshold_vars, validate_vars, scan_vars, earnings_vars,
                   analyzer_vars>>

\* lines 711-716: the browser is started if there is none; if that fails
\* the call returns the default
MCInit(t) ==
    /\ mc_pc[t] = "init"
    /\ \/ /\ driver = "None"
          /\ driver' = "alive"
          /\ mc_pc' = [mc_pc EXCEPT ![t] = "attempt"]
          /\ UNCHANGED mc_result
       \/ /\ driver = "None"
          /\ driver' = "None"
          /\ mc_result' = [mc_result EXCEPT ![t] = DefaultResult]
          /\ mc_pc' = [mc_pc EXCEPT ![t] = "release"]
       \/ /\ driver = "alive"
          /\ driver' = driver
          /\ mc_pc' = [mc_pc EXCEPT ![t] = "attempt"]
          /\ UNCHANGED mc_result
    /\ UNCHANGED <<driver_lock, lock_holder, my_lock, retries, fetches,
                   reinits>>
    /\ UNCHANGED <<threshold_vars, validate_vars, scan_vars, earnings_vars,
                   analyzer_vars>>

\* lines 768-779: an attempt failed: count it, start a new browser (which
\* may fail and leave none), go round the loop or fall out of it (781-783)
AttemptFailed(t, new_driver) ==
    /\ retries' = [retries EXCEPT ![t] = @ + 1]
    /\ reinits' = [reinits EXCEPT ![t] = @ + 1]
    /\ driver' = new_driver
    /\ IF may_retry(retries[t] + 1)
       THEN /\ mc_pc' = [mc_pc EXCEPT ![t] = "attempt"]
            /\ UNCHANGED mc_result
       ELSE /\ mc_pc' = [mc_pc EXCEPT ![t] = "release"]
            /\ mc_result' = [mc_result EXCEPT ![t] = DefaultResult]

\* lines 720-779: one round of the retry loop
MCAttempt(t) ==
    /\ mc_pc[t] = "attempt"
    /\ \/ \* the browser answers, or is restarted (723-729), and the page is
          \* fetched and parsed (731-766)
          /\ \E data \in MCData :
               mc_result' = [mc_result EXCEPT ![t] = data]
          /\ driver' = "alive"
          /\ fetches' = [fetches EXCEPT ![t] = @ + 1]
          /\ mc_pc' = [mc_pc EXCEPT ![t] = "release"]
          /\ UNCHANGED <<retries, reinits>>
       \/ \* the fetch or the wait raises
          /\ fetches' = [fetches EXCEPT ![t] = @ + 1]
          /\ \E new_driver \in {"None", "alive"} : AttemptFailed(t, new_driver)
       \/ \* the browser does not answer and restarting it raises (729)
          /\ UNCHANGED fetches
          /\ \E new_driver \in {"None", "alive"} : AttemptFailed(t, new_driver)
    /\ UNCHANGED <<driver_lock, lock_holder, my_lock>>
    /\ UNCHANGED <<threshold_vars, validate_vars, scan_vars, earnings_vars,
                   analyzer_vars>>

\* the with block is left: the Lock taken is released and the call returns
\* mc_result; the locals of the call are gone
MCRelease(t) ==
    /\ mc_pc[t] = "release"
    /\ lock_holder' = [lock_holder EXCEPT ![my_lock[t]] = 0]
    /\ mc_pc' = [mc_pc EXCEPT ![t] = "idle"]
    /\ my_lock' = [my_lock EXCEPT ![t] = 0]
    /\ retries' = [retries EXCEPT ![t] = 0]
    /\ fetches' = [fetches EXCEPT ![t] = 0]
    /\ reinits' = [reinits EXCEPT ![t] = 0]
    /\ mc_result' = [mc_result EXCEPT ![t] = DefaultResult]
    /\ UNCHANGED <<driver_lock, driver>>
    /\ UNCHANGED <<threshold_vars, validate_vars, scan_vars, earnings_vars,
                   analyzer_vars>>

NextMC ==
    \E t \in Threads :
        \/ MCCall(t)
        \/ MCCheckLock(t)
        \/ MCCreateLock(t)
        \/ MCLoadLock(t)
        \/ MCAcquire(t)
        \/ MCInit(t)
        \/ MCAttempt(t)
        \/ MCRelease(t)

SpecMC == Init /\ [][NextMC]_vars

\* a call that has started goes on: every step of it other than taking the
\* Lock is a step of a running thread; a thread waiting for a Lock gets it
\* when the Lock keeps being released (the scan makes finitely many calls)
MCRun(t) ==
    \/ MCCheckLock(t)
    \/ MCCreateLock(t)
    \/ MCLoadLock(t)
    \/ MCInit(t)
    \/ MCAttempt(t)
    \/ MCRelease(t)

MCFairness == \A t \in Threads : WF_vars(MCRun(t)) /\ SF_vars(MCAcquire(t))

SpecMCFair == SpecMC /\ MCFairness

----------------------------------------------------------------------------
(* the claims about validate_stock and the threshold adjustment *)

Range(s) == {s[i] : i \in DOMAIN s}

Done == vs.pc = "done"

\* a result of the full evaluation (lines 1034-1045), the only one with a tier
FullyEvaluated == Done /\ vs.result.has_tier

HardGates ==
    <<"price", "options", "expiry", "oi", "analysis", "slope", "delta", "move">>

SoftChecks == <<"soft_price", "soft_volume", "winrate", "ivrv">>

GateIndex(g) ==
    CHOOSE i \in 1..Len(HardGates \o SoftChecks) : (HardGates \o SoftChecks)[i] = g

\* the condition each hard gate demands, as the specification words it
GateHolds(g, f) ==
    CASE g = "price" -> f.current_price >= 1000
      [] g = "options" -> f.options_dates # <<>>
      [] g = "expiry" -> f.days_to_expiry <= 9
      [] g = "oi" -> f.total_oi >= 2000
      [] g = "analysis" -> ~f.analysis.error
      [] g = "slope" -> FLe(f.term_slope, -40)
      [] g = "delta" -> /\ f.analysis.atm_call_delta <= 57
                        /\ Abs(f.analysis.atm_put_delta) <= 57
      [] g = "move" -> f.computed["expected_move_dollars"] >= 900000

GateReasons(g) ==
    CASE g = "price" -> {"Price < $10.00"}
      [] g = "options" -> {"No options available"}
      [] g = "expiry" -> {"Next expiration too far"}
      [] g = "oi" -> {"Insufficient open interest"}
      [] g = "analysis" -> {"Analysis error"}
      [] g = "slope" -> {"Term structure > -0.004"}
      [] g = "delta" -> {"ATM options have delta > 0.57"}
      [] g = "move" -> {"Expected move < $0.90",
                        "Expected move (fallback) < $0.90"}

\* the step from f to g evaluates hard gate gate
Evaluates(gate, f, g) ==
    /\ Len(g.trace) = Len(f.trace) + 1
    /\ g.trace[Len(g.trace)] = gate

InOrder(trace) ==
    \A i, j \in DOMAIN trace : i < j => GateIndex(trace[i]) < GateIndex(trace[j])

\* C1: the hard gates run in the fixed order price, options, expiry, open
\* interest, analysis, slope <= -0.004, deltas, expected move >= $0.90; the
\* first one whose condition does not hold ends the evaluation with
\* pass = false, near_miss = false and that gate's reason, and nothing runs
\* after it: no later gate, no soft check, no win-rate call
C1_FirstFailingHardGateEnds ==
    [][ /\ InOrder(vs'.trace)
        /\ \A gate \in Range(HardGates) :
             (Evaluates(gate, vs, vs') /\ ~GateHolds(gate, vs'))
               => /\ vs'.pc = "done"
                  /\ ~vs'.result.pass
                  /\ ~vs'.result.near_miss
                  /\ Len(vs'.result.reason) = 1
                  /\ vs'.result.reason[1] \in GateReasons(gate)
                  /\ vs'.mc_calls = 0
        /\ (vs.pc = "done" /\ vs'.pc \notin {"price", "idle"}) => vs' = vs
      ]_vars

\* C2: after a full evaluation the result is Tier 1 (tier 1, pass, not a
\* near miss) exactly when no soft check failed and none was a near miss
C2_Tier1IffNoFailedNoNearMiss ==
    FullyEvaluated =>
        ( (vs.result.tier = 1 /\ vs.result.pass /\ ~vs.result.near_miss)
          <=> (vs.failed_checks = <<>> /\ vs.near_miss_checks = <<>>) )

C2_Witness ==
    /\ FullyEvaluated
    /\ vs.result.tier = 1
    /\ vs.result.pass
    /\ vs.trace = <<"price", "options", "expiry", "oi", "analysis", "slope",
                    "soft_price", "soft_volume", "winrate", "ivrv">>

\* C3: after a full evaluation the result is Tier 2 (tier 2, pass, not a
\* near miss) exactly when no soft check failed, at least one was a near
\* miss and the term-structure slope is <= -0.006
C3_Tier2IffNearMissAndSteepSlope ==
    FullyEvaluated =>
        ( (vs.result.tier = 2 /\ vs.result.pass /\ ~vs.result.near_miss)
          <=> ( /\ vs.failed_checks = <<>>
                /\ vs.near_miss_checks # <<>>
                /\ FLe(vs.term_slope, -60) ) )

C3_Witness ==
    /\ FullyEvaluated
    /\ vs.result.tier = 2
    /\ vs.result.pass
    /\ vs.term_slope = -60
    /\ vs.near_miss_checks = <<"IV/RV ratio < pass">>

\* C4: a fully evaluated candidate that is neither Tier 1 nor Tier 2 has
\* tier 0 and pass = false; it is a near miss exactly when no soft check
\* failed and a Fail exactly when one did, the reason then being the failed
\* checks; a win rate below 40 gives a Fail whose reason names the win rate
C4_NearMissOrFail ==
    (FullyEvaluated /\ vs.result.tier \notin {1, 2}) =>
        /\ vs.result.tier = 0
        /\ ~vs.result.pass
        /\ vs.result.near_miss <=> (vs.failed_checks = <<>>)
        /\ vs.failed_checks # <<>> => vs.result.reason = vs.failed_checks
        /\ (vs.mc_calls = 1 /\ vs.metrics["win_rate"] < 40)
             => /\ ~vs.result.near_miss
                /\ "Winrate < 40%" \in Range(vs.result.reason)

C4_Witness ==
    /\ FullyEvaluated
    /\ vs.result.tier = 0
    /\ vs.result.near_miss
    /\ vs.term_slope = -59
    /\ vs.near_miss_checks # <<>>

\* C5: on every exit path pass is true exactly for Tier 1 and Tier 2, pass
\* and near_miss are never both true, and a near miss has no failed soft check
C5_PassIffTier ==
    Done =>
        /\ vs.result.pass <=> (vs.result.has_tier /\ vs.result.tier \in {1, 2})
        /\ ~(vs.result.pass /\ vs.result.near_miss)
        /\ vs.result.near_miss => vs.failed_checks = <<>>

C5_Witness ==
    /\ Done
    /\ vs.result.pass
    /\ vs.result.tier = 2
    /\ vs.near_miss_checks = <<"Price < $7.00", "Volume < 1.5M", "Winrate < 50%">>

\* C6: on every exit path the returned metrics hold every metric computed
\* up to that point, with its value
C6_MetricsNeverDropped ==
    Done =>
        \A k \in DOMAIN vs.computed :
            /\ k \in DOMAIN vs.result.metrics
            /\ vs.result.metrics[k] = vs.computed[k]

\* the pair the specification maps a SPY ratio to
ClaimedThresholds(r) ==
    IF r <= 75 THEN <<90, 65>>
    ELSE IF r <= 85 THEN <<100, 75>>
    ELSE IF r <= 100 THEN <<110, 85>>
    ELSE <<125, 100>>

\* C7: right after an adjustment that succeeded with ratio r the thresholds
\* are the pair mapped from r alone, whatever they were before
C7_ThresholdsFromRatioAlone ==
    (last_adjust.kind = "ok" /\ last_adjust.ratio # NaN)
        => Thresholds = ClaimedThresholds(last_adjust.ratio)

\* C8: an adjustment whose SPY analysis returned an error or raised leaves
\* both thresholds as they were and returns, so that validation goes on
C8_FailedAdjustKeepsThresholds ==
    [][ (vs.pc = "idle" /\ vs'.pc # "idle"
          /\ last_adjust'.kind \in {"error", "raise"})
            => /\ iv_rv_pass_threshold' = iv_rv_pass_threshold
               /\ iv_rv_near_miss_threshold' = iv_rv_near_miss_threshold
               /\ vs'.pc = "ready"
      ]_vars

C8_Witness ==
    /\ last_adjust.kind \in {"error", "raise"}
    /\ vs.pc = "ready"
    /\ Thresholds = <<90, 65>>

\* C10: whatever the number of threads calling check_mc_overestimate, the
\* first calls included, at most one of them is inside the browser-session
\* section (session init, staleness check, page fetch, reinit)
C10_OneThreadInSession ==
    Cardinality({t \in Threads : mc_pc[t] \in {"init", "attempt"}}) <= 1

\* C9: in every scan_earnings and analyze_ticker call, for every worker
\* count, the thresholds are adjusted exactly once, before the first
\* validate_stock of the call starts, and they are not written while a
\* validate_stock of the call is running
C9_AdjustOnceBeforeValidation ==
    [][ /\ (\E i \in DOMAIN tasks : tasks[i].st = "running")
             => /\ iv_rv_pass_threshold' = iv_rv_pass_threshold
                /\ iv_rv_near_miss_threshold' = iv_rv_near_miss_threshold
        /\ (\E i \in DOMAIN tasks' : tasks'[i].st # "queued")
             => adjust_calls' = 1
        /\ main_pc' = "returned" => adjust_calls' = 1
      ]_vars

C9_Witness ==
    /\ main_pc = "collect"
    /\ workers = 2
    /\ Len(tasks) = 2
    /\ tasks[1].st = "running"
    /\ tasks[2].st = "running"
    /\ adjust_calls = 1
    /\ Thresholds = <<110, 85>>

----------------------------------------------------------------------------
(* the claims about scan_earnings *)

Hung(i) == tasks[i].inp.hangs

\* C11: in parallel mode, when the validation of one candidate never
\* completes, scan_earnings still returns eventually; the hung worker does
\* not block the batch
C11_HungWorkerDoesNotBlock ==
    [](( /\ entry = "scan"
         /\ workers > 0
         /\ main_pc = "collect"
         /\ \E i \in DOMAIN tasks : Hung(i) )
        => <>(main_pc = "returned"))

\* scan_earnings has returned
Returned == main_pc = "returned" /\ entry = "scan"

\* the validation of candidate i fails: a collaborator raises or the
\* analysis is an error result
Failing(i) ==
    tasks[i].inp.raises_at # "none" \/ tasks[i].inp.analysis.error

NearMissTickers == {e[1] : e \in Range(near_misses)}

\* the result of candidate j is where scan_earnings files a result
Included(j) ==
    LET r == tasks[j].vs.result
    IN  /\ r.pass => j \in Range(recommended)
        /\ (~r.pass /\ r.near_miss)
             => /\ <<j, r.reason>> \in Range(near_misses)
                /\ j \in DOMAIN stock_metrics
        /\ r.pass => j \in DOMAIN stock_metrics

C13_ListsMatchResults ==
    Returned =>
        /\ \A i \in DOMAIN tasks :
             LET r == tasks[i].vs.result
                 filed == tasks[i].got = "filed"
             IN  /\ i \in Range(recommended) <=> (filed /\ r.pass)
                 /\ i \in NearMissTickers
                      <=> (filed /\ ~r.pass /\ r.near_miss)
                 /\ i \in NearMissTickers
                      => <<i, r.reason>> \in Range(near_misses)
                 /\ i \in DOMAIN stock_metrics
                      => stock_metrics[i] = r.metrics
        /\ Range(recommended) \cup NearMissTickers \subseteq DOMAIN tasks
        /\ Range(recommended) \cap NearMissTickers = {}
        /\ Cardinality(Range(recommended)) = Len(recommended)
        /\ Cardinality(NearMissTickers) = Len(near_misses)
        /\ DOMAIN stock_metrics = Range(recommended) \cup NearMissTickers

C13_Witness ==
    /\ Returned
    /\ workers = 1
    /\ recommended = <<2>>
    /\ NearMissTickers = {1}
    /\ DOMAIN stock_metrics = {1, 2}

\* what the sequential loop (lines 1245-1257) gets from validate_stock for
\* a candidate under the thresholds of the scan
SequentialResult(inp) ==
    validate_end(validate_begin(inp), inp,
                 iv_rv_pass_threshold, iv_rv_near_miss_threshold).result

SequentialRecommended ==
    {i \in DOMAIN tasks : SequentialResult(tasks[i].inp).pass}

SequentialNearMisses ==
    {<<i, SequentialResult(tasks[i].inp).reason>> :
        i \in {j \in DOMAIN tasks :
                 /\ ~SequentialResult(tasks[j].inp).pass
                 /\ SequentialResult(tasks[j].inp).near_miss}}

SequentialMetrics ==
    [i \in SequentialRecommended \cup {e[1] : e \in SequentialNearMisses}
        |-> SequentialResult(tasks[i].inp).metrics]

SameAsSequential ==
    /\ Range(recommended) = SequentialRecommended
    /\ Range(near_misses) = SequentialNearMisses
    /\ stock_metrics = SequentialMetrics

----------------------------------------------------------------------------
(* the claims about the slope and the expected move *)

\* C15: every result with pass or near_miss has a term-structure slope that
\* is a defined number <= -0.004; an undefined slope never reaches Tier 1,
\* Tier 2 or Near-Miss
C15_UndefinedSlopeNeverPasses ==
    (Done /\ (vs.result.pass \/ vs.result.near_miss))
        => (vs.term_slope # NaN /\ vs.term_slope <= -40)

\* the validation got an analysis made from a straddle below $0.90
LowStraddle ==
    /\ Done
    /\ "analysis" \in Range(vs.trace)
    /\ ~vs.analysis.error
    /\ vs.analysis.expected_move.kind # "bad"
    /\ vs.analysis.straddle < 90

\* C16: no candidate whose expected dollar move, the straddle of its
\* nearest usable expiration, is below $0.90 is Tier 1, Tier 2 or a near
\* miss, zero included; when it passes the gates before, it is a Fail with
\* the expected-move reason
C16_LowExpectedMoveFails ==
    LowStraddle =>
        /\ ~vs.result.pass
        /\ ~vs.result.near_miss
        /\ ( /\ FLe(vs.term_slope, -40)
              /\ "slope" \in Range(vs.trace)
              /\ vs.analysis.atm_call_delta <= 57
              /\ Abs(vs.analysis.atm_put_delta) <= 57 )
             => vs.result.reason = <<"Expected move < $0.90">>

----------------------------------------------------------------------------
(* OptionsAnalyzer.build_term_structure (src/cli_scanner/core/analyzer.py) *)

\* An implied volatility is a whole number of hundredths (0.50 is 50).  A
\* value the interpolant returns is kept as the fraction num / den of
\* hundredths; 0 / 0 is nan.

\* largest number of points given to build_term_structure
MaxPoints == 3

TSDays == {7, 30, 60}
TSIvs == {35, 40, 50}
QueryDays == {5, 7, 20, 30, 45, 60, 61}

Float(iv) == [num |-> iv, den |-> 1]

NaNValue == [num |-> 0, den |-> 0]

IsNaN(v) == v.den = 0

\* mutant: the points are used in the order they were passed
unsorted_points(days, ivs) == [k \in DOMAIN days |-> <<days[k], ivs[k]>>]

\* lines 96-100: argsort on the days, the IVs reordered with them
sorted_points(days, ivs) ==
    [k \in DOMAIN days |->
        LET i == CHOOSE i \in DOMAIN days :
                    Cardinality({j \in DOMAIN days : days[j] < days[i]}) = k - 1
        IN  <<days[i], ivs[i]>>]

\* line 102: interp1d refuses an empty sample; whether it refuses a single
\* point depends on the scipy installed (single_ok)
interp1d_raises(pts, single_ok) ==
    Len(pts) = 0 \/ (Len(pts) = 1 /\ ~single_ok)

\* lines 95-115: the function returned, as data; failed is the except branch
build_term_structure(days, ivs, single_ok) ==
    LET pts == sorted_points(days, ivs)
    IN  IF interp1d_raises(pts, single_ok)
        THEN [failed |-> TRUE, pts |-> <<>>]
        ELSE [failed |-> FALSE, pts |-> pts]

\* line 110, interp1d's linear call: searchsorted, the index clipped to
\* 1..n-1 (numpy's clip gives n-1 when n-1 < 1), lo = hi - 1 (index -1 is
\* the last element), slope = (y_hi - y_lo) / (x_hi - x_lo),
\* y = slope * (x - x_lo) + y_lo; with one point that is 0 / 0
spline(pts, dte) ==
    LET n == Len(pts)
        found == Cardinality({k \in 1..n : pts[k][1] < dte})
        hi == IF n - 1 < 1 THEN n - 1
              ELSE IF found < 1 THEN 1
              ELSE IF found > n - 1 THEN n - 1 ELSE found
        lo == IF hi - 1 < 0 THEN n - 1 ELSE hi - 1
        x_lo == pts[lo + 1][1]
        x_hi == pts[hi + 1][1]
        y_lo == pts[lo + 1][2]
        y_hi == pts[hi + 1][2]
    IN  IF x_hi = x_lo THEN NaNValue
        ELSE [num |-> (y_hi - y_lo) * (dte - x_lo) + y_lo * (x_hi - x_lo),
              den |-> x_hi - x_lo]

\* lines 104-110 and 115
term_spline(ts, dte) ==
    IF ts.failed THEN NaNValue
    ELSE IF dte < ts.pts[1][1] THEN Float(ts.pts[1][2])
    ELSE IF dte > ts.pts[Len(ts.pts)][1] THEN Float(ts.pts[Len(ts.pts)][2])
    ELSE spline(ts.pts, dte)

\* the point lists build_term_structure is given: distinct days, any order
PointLists ==
    UNION { {<<days, ivs>> : days \in {d \in [1..n -> TSDays] :
                                         \A i, j \in 1..n : d[i] = d[j] => i = j},
                            ivs \in [1..n -> TSIvs]} : n \in 0..MaxPoints }

\* build_term_structure(days, ivs) is called (one call of the analyzer at
\* a time is followed)
BuildTermStructure ==
    /\ rec_call.kind = "none"
    /\ fd_call.kind = "none"
    /\ \E p \in PointLists, single_ok \in BOOLEAN :
         ts_call' = [kind |-> "built", days |-> p[1], ivs |-> p[2],
                     single_ok |-> single_ok,
                     ts |-> build_term_structure(p[1], p[2], single_ok)]
    /\ UNCHANGED <<threshold_vars, validate_vars, scan_vars, earnings_vars,
                   mc_vars, rec_call,
                   fd_call, estimator_vars>>

\* the function it returned is called with a day
QueryTermSpline ==
    /\ ts_call.kind \in {"built", "queried"}
    /\ \E dte \in QueryDays :
         ts_call' = [kind |-> "queried", days |-> ts_call.days,
                     ivs |-> ts_call.ivs, single_ok |-> ts_call.single_ok,
                     ts |-> ts_call.ts, dte |-> dte,
                     value |-> term_spline(ts_call.ts, dte)]
    /\ UNCHANGED <<threshold_vars, validate_vars, scan_vars, earnings_vars,
                   mc_vars, rec_call,
                   fd_call, estimator_vars>>

----------------------------------------------------------------------------
(* OptionsAnalyzer.compute_recommendation *)

\* largest number of expirations a ticker lists
MaxExpirations == 3

\* days from today of the expirations a ticker can list
RecDays == {0, 7, 30, 45, 60}
\* the ATM implied volatility of the chain expiring in that many days
IvOf == [d \in RecDays |-> 60 - d \div 3]
\* yang_zhang_volatility of the 3-month history, hundredths; nan when the
\* rolling sums have no full window or the sum under the root is negative
HistVols == {NaN, 0, 40}
\* the fetch that raises, if one does
RaisePoints == {"none", "options", "chain", "history", "volume"}

\* stock.options: ascending sequences of distinct days
OptionLists ==
    UNION { {d \in [1..n -> RecDays] : \A i, j \in 1..n : i < j => d[i] < d[j]} :
              n \in 0..MaxExpirations }

\* lines 142-145: the dates whose chain has calls and puts, in order
Keep(seq, empty) ==
    LET idx == {i \in DOMAIN seq : seq[i] \notin empty}
    IN  [k \in 1..Cardinality(idx) |->
            seq[CHOOSE i \in idx : Cardinality({j \in idx : j < i}) = k - 1]]

\* line 31 without sorted()
unsorted_dates(dates) == dates

\* line 31: sorted(...), the dates as days from today (0 is today)
sorted_dates(dates) ==
    CHOOSE s \in [1..Len(dates) -> Range(dates)] :
        /\ \A i, j \in 1..Len(dates) : i < j => s[i] <= s[j]
        /\ \A d \in Range(dates) :
              Cardinality({i \in 1..Len(dates) : s[i] = d})
                  = Cardinality({i \in 1..Len(dates) : dates[i] = d})

\* lines 27-44: the sorted dates up to and including the first one 45 or
\* more days out, without today when another one is left; all of them when
\* none is 45 days out
filter_dates(dates) ==
    LET sorted == sorted_dates(dates)
        far == {i \in DOMAIN sorted : sorted[i] >= 45}
    IN  IF far = {} THEN sorted
        ELSE LET first == CHOOSE i \in far : \A j \in far : i <= j
                 arr == SubSeq(sorted, 1, first)
             IN  IF arr[1] = 0 /\ Len(arr) > 1 THEN Tail(arr) ELSE arr

\* largest number of dates filter_dates is given
MaxDates == 3
\* the dates it is given, as days from today: a past one, today, the days
\* around the cutoff
DateDays == {-1, 0, 44, 45, 60}

\* the lists it is given: any order, repeats allowed
DateLists == UNION { [1..n -> DateDays] : n \in 0..MaxDates }

\* filter_dates(dates) is called and returns
FilterDates ==
    /\ fd_call.kind = "none"
    /\ rec_call.kind = "none"
    /\ ts_call.kind = "none"
    /\ \E dates \in DateLists :
         fd_call' = [kind |-> "returned", dates |-> dates,
                     out |-> filter_dates(dates)]
    /\ UNCHANGED <<threshold_vars, validate_vars, scan_vars, earnings_vars,
                   mc_vars, ts_call,
                   rec_call, estimator_vars>>

\* the caller has used the list
FilterDatesUsed ==
    /\ fd_call.kind = "returned"
    /\ fd_call' = NoCall
    /\ UNCHANGED <<threshold_vars, validate_vars, scan_vars, earnings_vars,
                   mc_vars, ts_call,
                   rec_call, estimator_vars>>

Min(S) == CHOOSE x \in S : \A y \in S : x <= y

\* a - b and a / n on the fractions; nan when an operand is
FSub(a, b) ==
    IF IsNaN(a) \/ IsNaN(b) THEN NaNValue
    ELSE [num |-> a.num * b.den - b.num * a.den, den |-> a.den * b.den]

FDiv(a, n) ==
    IF IsNaN(a) THEN NaNValue
    ELSE IF n > 0 THEN [num |-> a.num, den |-> a.den * n]
    ELSE [num |-> -a.num, den |-> a.den * (-n)]

\* the fraction v times scale as a whole number of the model's units,
\* rounded up so that comparisons with whole thresholds are kept; nan is NaN
Units(v, scale) ==
    IF IsNaN(v) THEN NaN ELSE -((-(v.num * scale)) \div v.den)

ErrorResult(message) ==
    [kind |-> "error", error |-> message, term_slope |-> NaN, iv30 |-> NaN,
     iv30_rv30 |-> NaN, expected_move |-> [kind |-> "NA", pct |-> 0]]

\* lines 193-199: the except branch
Failed == ErrorResult("Failed to compute recommendation")

\* line 184 with 0 in the place of 9999
iv30_rv30_zero_sentinel(iv30, hist_vol) ==
    IF FGt(hist_vol, 0) THEN Units(FDiv(iv30, hist_vol), 100) ELSE 0

\* line 184, hundredths; 9999 is 999900 hundredths; nan > 0 is False
iv30_rv30_of(iv30, hist_vol) ==
    IF FGt(hist_vol, 0) THEN Units(FDiv(iv30, hist_vol), 100) ELSE 999900

\* lines 119-199
compute_recommendation(inp) ==
    IF inp.ticker_empty THEN ErrorResult("No symbol provided.")
    ELSE IF inp.raises = "options" THEN Failed
    ELSE IF inp.options = <<>> THEN ErrorResult("No options for ticker")
    ELSE IF inp.raises = "chain" THEN Failed
    ELSE IF inp.raises = "history" THEN Failed
    ELSE IF inp.hist_empty THEN ErrorResult("No price data available")
    ELSE
      LET exp_dates == filter_dates(inp.options)
          dtes == Keep(exp_dates, inp.empty_chains)
          ivs == [k \in DOMAIN dtes |-> IvOf[dtes[k]]]
      IN  IF dtes = <<>> THEN ErrorResult("Could not calculate ATM IVs")
          ELSE
            LET ts == build_term_structure(dtes, ivs, inp.single_ok)
                iv30 == term_spline(ts, 30)
                min_days == Min(Range(dtes))
            IN  IF 45 - min_days = 0 THEN Failed
                ELSE IF inp.raises = "volume" THEN Failed
                ELSE
                  LET slope == FDiv(FSub(term_spline(ts, 45),
                                         term_spline(ts, min_days)),
                                    45 - min_days)
                  IN  [kind |-> "ok", error |-> "",
                       term_slope |-> Units(slope, 100),
                       iv30 |-> Units(iv30, 1),
                       iv30_rv30 |-> iv30_rv30_of(iv30, inp.hist_vol),
                       expected_move |->
                           expected_move_of(inp.straddle, inp.current_price)]

\* what the collaborators can answer during one call
RecInputs ==
    { [ticker_empty |-> te, options |-> o, empty_chains |-> e,
       hist_empty |-> he, raises |-> r, single_ok |-> so, hist_vol |-> hv,
       straddle |-> st, current_price |-> p] :
        te \in BOOLEAN, o \in OptionLists, e \in SUBSET RecDays,
        he \in BOOLEAN, r \in RaisePoints, so \in BOOLEAN, hv \in HistVols,
        st \in {0, 90}, p \in AnalysisPrices }

\* compute_recommendation(ticker) is called and returns
ComputeRecommendation ==
    /\ rec_call.kind = "none"
    /\ ts_call.kind = "none"
    /\ fd_call.kind = "none"
    /\ \E inp \in RecInputs :
         /\ inp.empty_chains \subseteq Range(inp.options)
         /\ rec_call' = [kind |-> "returned", inp |-> inp,
                         out |-> compute_recommendation(inp)]
    /\ UNCHANGED <<threshold_vars, validate_vars, scan_vars, earnings_vars,
                   mc_vars, ts_call,
                   fd_call, estimator_vars>>

\* the caller has used the result
RecommendationUsed ==
    /\ rec_call.kind = "returned"
    /\ rec_call' = NoCall
    /\ UNCHANGED <<threshold_vars, validate_vars, scan_vars, earnings_vars,
                   mc_vars, ts_call,
                   fd_call, estimator_vars>>

----------------------------------------------------------------------------
(* EarningsScanner.fetch_earnings_data and _get_combined_earnings_data *)

\* most entries one source lists for a date
MaxListed == 2

EarningsTickers == {"AAA", "BBB"}
\* the timings the three sources give (lines 321-328, 412-419, 632-639)
Timings == {"Unknown", "Pre Market", "Post Market"}

\* what one source returns: entries with distinct tickers, in any order;
\* the empty list when the source failed
SourceLists ==
    UNION { {l \in [1..n -> [ticker : EarningsTickers, timing : Timings]] :
                \A i, j \in 1..n : l[i].ticker = l[j].ticker => i = j} :
              n \in 0..MaxListed }

\* the attributes all_sources, use_dolthub, use_finnhub of the scanner
SourceModes == {"all_sources", "use_dolthub", "use_finnhub", "default"}

\* all_stocks, a dict in insertion order: the place of a ticker, 0 if absent
PlaceOf(all_stocks, ticker) ==
    IF \E k \in DOMAIN all_stocks : all_stocks[k].ticker = ticker
    THEN CHOOSE k \in DOMAIN all_stocks : all_stocks[k].ticker = ticker
    ELSE 0

\* lines 477-479: all_stocks[ticker] = stock
put_stock(all_stocks, stock) ==
    LET k == PlaceOf(all_stocks, stock.ticker)
    IN  IF k = 0 THEN Append(all_stocks, stock)
        ELSE [all_stocks EXCEPT ![k] = stock]

\* lines 484-489 without the elif
add_stock_keeping_timing(all_stocks, stock) ==
    IF PlaceOf(all_stocks, stock.ticker) = 0 THEN Append(all_stocks, stock)
    ELSE all_stocks

\* lines 484-489 (and 493-498, 545-550): a new ticker is added, a known one
\* gets the timing if its own is Unknown and the new one is not
add_stock(all_stocks, stock) ==
    LET k == PlaceOf(all_stocks, stock.ticker)
    IN  IF k = 0 THEN Append(all_stocks, stock)
        ELSE IF all_stocks[k].timing = "Unknown" /\ stock.timing # "Unknown"
        THEN [all_stocks EXCEPT ![k].timing = stock.timing]
        ELSE all_stocks

RECURSIVE put_stocks(_, _)
\* lines 477-479: the loop over the DoltHub stocks
put_stocks(all_stocks, stocks) ==
    IF stocks = <<>> THEN all_stocks
    ELSE put_stocks(put_stock(all_stocks, Head(stocks)), Tail(stocks))

RECURSIVE add_stocks(_, _)
\* lines 482-489: the loop over the stocks of a later source
add_stocks(all_stocks, stocks) ==
    IF stocks = <<>> THEN all_stocks
    ELSE add_stocks(add_stock(all_stocks, Head(stocks)), Tail(stocks))

\* lines 450-505
get_combined_earnings_data(dolthub_stocks, finnhub_stocks, investing_stocks) ==
    add_stocks(add_stocks(put_stocks(<<>>, dolthub_stocks), finnhub_stocks),
               investing_stocks)

\* lines 507-572
fetch_earnings_data(mode, dolthub_stocks, finnhub_stocks, investing_stocks) ==
    IF mode = "all_sources"
    THEN get_combined_earnings_data(dolthub_stocks, finnhub_stocks,
                                    investing_stocks)
    ELSE IF mode = "use_dolthub"
    THEN LET merged_stocks ==
                 add_stocks(put_stocks(<<>>, dolthub_stocks), finnhub_stocks)
         IN  IF merged_stocks # <<>> THEN merged_stocks ELSE investing_stocks
    ELSE IF mode = "use_finnhub"
    THEN IF finnhub_stocks # <<>> THEN finnhub_stocks ELSE investing_stocks
    ELSE investing_stocks

\* fetch_earnings_data(date) is called and returns
FetchEarningsData ==
    /\ earnings_call.kind = "none"
    /\ \E mode \in SourceModes, d \in SourceLists, f \in SourceLists,
          i \in SourceLists :
         earnings_call' =
             [kind |-> "returned", mode |-> mode, dolthub |-> d,
              finnhub |-> f, investing |-> i,
              out |-> fetch_earnings_data(mode, d, f, i)]
    /\ UNCHANGED <<threshold_vars, validate_vars, scan_vars, mc_vars,
                   analyzer_vars>>

\* the caller goes on with the list
EarningsUsed ==
    /\ earnings_call.kind = "returned"
    /\ earnings_call' = NoCall
    /\ UNCHANGED <<threshold_vars, validate_vars, scan_vars, mc_vars,
                   analyzer_vars>>

NextEarnings ==
    \/ FetchEarningsData
    \/ EarningsUsed

SpecEarnings == Init /\ [][NextEarnings]_vars

----------------------------------------------------------------------------
(* OptionsAnalyzer.yang_zhang_volatility and calculate_simple_volatility *)

\* most warnings an analyzer is followed for
MaxWarnings == 3

\* window: int = 30
Window == 30

\* the number of daily bars of a price history
BarCounts == {0, 1, 30, 31}
\* open_vol + k * close_vol + (1 - k) * window_rs of the last full window
\* times trading_periods, in 1e-4: nan when a bar of the window lacks its
\* open, high or low, negative when highs and lows contradict the closes
YZVariances == {NaN, -1, 0, 1600}
\* the variance of the last Window daily percent returns times
\* trading_periods, in 1e-4
ReturnVariances == {0, 1444}

\* the columns of a price frame: all of Open, High, Low, Close; Close
\* without one of the others; no Close
Columns == {"ohlc", "close", "none"}

\* the price histories the estimator is given
PriceData ==
    [columns : Columns, bars : BarCounts, variance : YZVariances,
     return_variance : ReturnVariances]

\* np.sqrt of a variance, hundredths: nan for nan and for a negative one
\* (a RuntimeWarning, no exception)
Sqrt(v) ==
    IF v = NaN \/ v < 0 THEN NaN
    ELSE CHOOSE r \in 0..v : r * r <= v /\ (r + 1) * (r + 1) > v

\* lines 52-70: what the try block does: raises, or returns result.iloc[-1]
yang_zhang(price_data) ==
    IF price_data.columns # "ohlc" THEN [raised |-> "KeyError", value |-> NaN]
    ELSE IF price_data.bars = 0 THEN [raised |-> "IndexError", value |-> NaN]
    ELSE IF price_data.bars < Window + 1 THEN [raised |-> "no", value |-> NaN]
    ELSE [raised |-> "no", value |-> Sqrt(price_data.variance)]

\* lines 78-91: the value returned and the warning of line 90, if any
calculate_simple_volatility(price_data) ==
    IF price_data.columns = "none"
    THEN [value |-> NaN, warned |-> <<[line |-> 90, error |-> "KeyError"]>>]
    ELSE IF price_data.bars - 1 <= 0
    THEN [value |-> NaN, warned |-> <<[line |-> 90, error |-> "IndexError"]>>]
    ELSE IF price_data.bars - 1 < Window
    THEN [value |-> NaN, warned |-> <<>>]
    ELSE [value |-> Sqrt(price_data.return_variance), warned |-> <<>>]

\* lines 46-76; shown is self.warnings_shown
yang_zhang_volatility(price_data, shown) ==
    LET yz == yang_zhang(price_data)
        simple == calculate_simple_volatility(price_data)
    IN  IF yz.raised = "no"
        THEN [value |-> yz.value, fell_back |-> FALSE, warned |-> <<>>,
              shown |-> shown]
        ELSE [value |-> simple.value, fell_back |-> TRUE,
              warned |-> (IF shown THEN <<>>
                          ELSE <<[line |-> 74, error |-> yz.raised]>>)
                            \o simple.warned,
              shown |-> TRUE]

\* yang_zhang_volatility(price_data) is called on the analyzer and returns
YangZhangVolatility ==
    /\ Len(warnings) < MaxWarnings
    /\ \E price_data \in PriceData :
         LET r == yang_zhang_volatility(price_data, warnings_shown)
         IN  /\ vol_call' = [kind |-> "returned", price_data |-> price_data,
                             fell_back |-> r.fell_back, out |-> r.value]
             /\ warnings_shown' = r.shown
             /\ warnings' = warnings \o r.warned
    /\ UNCHANGED <<threshold_vars, validate_vars, scan_vars, earnings_vars,
                   mc_vars, ts_call,
                   rec_call, fd_call>>

\* the caller goes on with the value
VolatilityUsed ==
    /\ vol_call.kind = "returned"
    /\ vol_call' = NoCall
    /\ UNCHANGED <<threshold_vars, validate_vars, scan_vars, earnings_vars,
                   mc_vars, ts_call,
                   rec_call, fd_call, warnings_shown, warnings>>

NextVolatility ==
    \/ YangZhangVolatility
    \/ VolatilityUsed

SpecVolatility == Init /\ [][NextVolatility]_vars

NextAnalyzer ==
    \/ BuildTermStructure
    \/ QueryTermSpline
    \/ FilterDates
    \/ FilterDatesUsed
    \/ ComputeRecommendation
    \/ RecommendationUsed

SpecAnalyzer == Init /\ [][NextAnalyzer]_vars

----------------------------------------------------------------------------
(* the claims about the analyzer *)

RecReturned == rec_call.kind = "returned"

\* the call got as far as listing the expirations
ListedOptions ==
    /\ RecReturned
    /\ ~rec_call.inp.ticker_empty
    /\ rec_call.inp.raises # "options"

\* ... as far as the price history
FetchedHistory ==
    /\ ListedOptions
    /\ rec_call.inp.options # <<>>
    /\ rec_call.inp.raises \notin {"chain", "history"}

UsableDays ==
    {d \in Range(filter_dates(rec_call.inp.options)) :
        d \notin rec_call.inp.empty_chains}

\* ... as far as the term structure
BuiltTermStructure ==
    /\ FetchedHistory
    /\ ~rec_call.inp.hist_empty
    /\ UsableDays # {}

\* the interpolation could not give a value where it was asked for one
InterpolationFailed ==
    LET days == Keep(filter_dates(rec_call.inp.options),
                     rec_call.inp.empty_chains)
        ts == build_term_structure(days, [k \in DOMAIN days |-> IvOf[days[k]]],
                                   rec_call.inp.single_ok)
    IN  \/ ts.failed
        \/ \E dte \in {30, 45, Min(UsableDays)} : IsNaN(term_spline(ts, dte))

IsError(message) ==
    rec_call.out.kind = "error" /\ rec_call.out.error = message

\* C17: compute_recommendation lets no exception out, and for each failure
\* mode (no options listed, empty price history, no usable expiration
\* after filtering, interpolation failure) it returns an error result with
\* the message of that mode, never a success result
C17_EveryFailureIsAnErrorResult ==
    /\ RecReturned => rec_call.out.kind \in {"ok", "error"}
    /\ (ListedOptions /\ rec_call.inp.options = <<>>)
         => IsError("No options for ticker")
    /\ (FetchedHistory /\ rec_call.inp.hist_empty)
         => IsError("No price data available")
    /\ (FetchedHistory /\ ~rec_call.inp.hist_empty /\ UsableDays = {})
         => IsError("Could not calculate ATM IVs")
    /\ (BuiltTermStructure /\ InterpolationFailed)
         => /\ rec_call.out.kind = "error"
            /\ rec_call.out.error
                 \notin {"No options for ticker", "No price data available",
                          "Could not calculate ATM IVs"}

\* C18: when the smallest usable days-to-expiration is 45, the call
\* returns a success result with a defined slope; no division by zero
C18_MinDays45HasDefinedSlope ==
    ( /\ BuiltTermStructure
      /\ Min(UsableDays) = 45
      /\ rec_call.inp.raises # "volume" )
        => (rec_call.out.kind = "ok" /\ rec_call.out.term_slope # NaN)

----------------------------------------------------------------------------
(* the claims about build_term_structure *)

Queried == ts_call.kind = "queried"

TSPoints == {<<ts_call.days[k], ts_call.ivs[k]>> : k \in DOMAIN ts_call.days}

MinPoint == CHOOSE p \in TSPoints : \A q \in TSPoints : p[1] <= q[1]

MaxPoint == CHOOSE p \in TSPoints : \A q \in TSPoints : p[1] >= q[1]

Adjacent(a, b) ==
    a[1] < b[1] /\ ~\E c \in TSPoints : a[1] < c[1] /\ c[1] < b[1]

\* the value returned is the number iv
ValueIs(iv) == ~IsNaN(ts_call.value) /\ ts_call.value.num = iv * ts_call.value.den

\* the value returned is on the line through a and b at day q
OnLine(a, b, q) ==
    /\ ~IsNaN(ts_call.value)
    /\ ts_call.value.num * (b[1] - a[1])
         = ts_call.value.den * (a[2] * (b[1] - q) + b[2] * (q - a[1]))

C20_OnePointIsConstant ==
    (Queried /\ Len(ts_call.days) = 1) => ValueIs(ts_call.ivs[1])

----------------------------------------------------------------------------
(* the claims about the IV/RV ratio of compute_recommendation *)

\* the call got as far as line 184: every fetch answered, a usable
\* expiration was left and 45 - min(dtes) was not 0
ReachedRatio ==
    /\ BuiltTermStructure
    /\ rec_call.inp.raises = "none"
    /\ Min(UsableDays) # 45

\* term_spline(30) of the call, as a fraction
Iv30 ==
    LET days == Keep(filter_dates(rec_call.inp.options),
                     rec_call.inp.empty_chains)
    IN  term_spline(build_term_structure(days,
                        [k \in DOMAIN days |-> IvOf[days[k]]],
                        rec_call.inp.single_ok), 30)

\* r is iv30 / hist_vol in hundredths (rounded up), nan when iv30 is
IsQuotient(r, iv30, hist_vol) ==
    IF IsNaN(iv30) \/ hist_vol = NaN THEN r = NaN
    ELSE /\ r # NaN
         /\ (r - 1) * hist_vol * iv30.den < 100 * iv30.num
         /\ 100 * iv30.num <= r * hist_vol * iv30.den

\* C21: the ratio is exactly 9999 whenever the historical volatility
\* is <= 0 and iv30 / hist_vol otherwise; computing it never raises
C21_SentinelIffNonPositive ==
    ReachedRatio =>
        /\ rec_call.out.kind = "ok"
        /\ IF rec_call.inp.hist_vol # NaN /\ rec_call.inp.hist_vol <= 0
           THEN rec_call.out.iv30_rv30 = 999900
           ELSE IsQuotient(rec_call.out.iv30_rv30, Iv30, rec_call.inp.hist_vol)

\* C21, amended: the ratio is iv30 / hist_vol whenever the historical
\* volatility is > 0 and exactly 9999 in every other case, a nan
\* historical volatility included; computing it never raises
C21_SentinelUnlessPositive ==
    ReachedRatio =>
        /\ rec_call.out.kind = "ok"
        /\ IF FGt(rec_call.inp.hist_vol, 0)
           THEN IsQuotient(rec_call.out.iv30_rv30, Iv30, rec_call.inp.hist_vol)
           ELSE rec_call.out.iv30_rv30 = 999900

\* a call with a nan historical volatility got its ratio
C21_Witness ==
    /\ ReachedRatio
    /\ rec_call.inp.hist_vol = NaN
    /\ rec_call.out.iv30_rv30 = 999900

----------------------------------------------------------------------------
(* the claims about the retry loop of check_mc_overestimate *)

\* the call of thread t is at one of its return statements
Returning(t) == mc_pc[t] = "release"

\* ... at line 716, line 783, lines 763-766
ReturnsNoSession(t) ==
    Returning(t) /\ fetches[t] = 0 /\ retries[t] = 0
GaveUp(t) == Returning(t) /\ retries[t] = MaxRetries
ReturnsScraped(t) ==
    Returning(t) /\ ~ReturnsNoSession(t) /\ ~GaveUp(t)

HoldsALock(t) == \E l \in Threads : lock_holder[l] = t

RetryLoopBounded ==
    \A t \in Threads :
        /\ fetches[t] <= 3
        /\ reinits[t] = retries[t]
        /\ mc_pc[t] = "attempt" => fetches[t] <= retries[t]
        /\ ReturnsScraped(t) =>
             /\ fetches[t] <= retries[t] + 1
             /\ mc_result[t] \in MCData
        /\ (GaveUp(t) \/ ReturnsNoSession(t)) =>
             mc_result[t] = DefaultResult
        /\ mc_pc[t] = "idle" => ~HoldsALock(t)

\* C22: a call makes at most 3 page fetches, returns what the first
\* successful one scraped, restarts the browser after every failed attempt,
\* returns the default after 3 failed attempts or a failed session
\* creation, terminates, and leaves the lock it took released
C22_BoundedRetries ==
    /\ []RetryLoopBounded
    /\ \A t \in Threads : [](mc_pc[t] # "idle" => <>(mc_pc[t] = "idle"))

\* a call gives up after three fetches that all failed
C22_Witness ==
    \E t \in Threads :
        /\ GaveUp(t)
        /\ fetches[t] = 3
        /\ reinits[t] = 3
        /\ mc_result[t] = DefaultResult

----------------------------------------------------------------------------
(* the claims about the soft gates of validate_stock *)

\* the soft price or volume check of the running validation failed
PriceOrVolumeFailed ==
    vs.metrics["price"] < 500 \/ vs.metrics["volume"] < 1000

\* C23: the win-rate collaborator is called if and only if neither the
\* soft price check nor the volume check failed; called, a win rate below
\* 40 adds a failed check, one of at least 40 and below 50 a near-miss
\* check, one of 50 or more neither; skipped, the metrics get win_rate 0
\* and win_quarters 0 and neither list gets an entry
C23_WinRateGate ==
    [][ (vs.pc = "winrate" /\ vs'.pc # "winrate") =>
          LET called == vs'.mc_calls = vs.mc_calls + 1
              win_rate == vs'.metrics["win_rate"]
              failed == vs'.failed_checks = Append(vs.failed_checks,
                                                   "Winrate < 40%")
              near == vs'.near_miss_checks = Append(vs.near_miss_checks,
                                                    "Winrate < 50%")
              no_failed == vs'.failed_checks = vs.failed_checks
              no_near == vs'.near_miss_checks = vs.near_miss_checks
          IN  /\ called <=> ~PriceOrVolumeFailed
              /\ ~called => vs'.mc_calls = vs.mc_calls
              /\ (called /\ win_rate < 40) => (failed /\ no_near)
              /\ (called /\ win_rate >= 40 /\ win_rate < 50)
                   => (near /\ no_failed)
              /\ (called /\ win_rate >= 50) => (no_failed /\ no_near)
              /\ ~called => /\ win_rate = 0
                            /\ vs'.metrics["win_quarters"] = 0
                            /\ no_failed
                            /\ no_near
      ]_vars

\* the call was skipped after a failed volume check
C23_Witness ==
    /\ vs.pc = "ivrv"
    /\ vs.mc_calls = 0
    /\ vs.failed_checks = <<"Volume < 1M">>
    /\ vs.metrics["win_rate"] = 0
    /\ vs.metrics["win_quarters"] = 0

\* C24: the IV/RV gate compares the candidate's ratio with the pair
\* (pass p, near-miss n) left by the most recent adjustment: ratio < n adds
\* a failed check, n <= ratio < p a near-miss check, ratio >= p neither
C24_IvRvGateUsesCurrentPair ==
    [][ /\ (vs.pc = "ivrv" /\ vs'.pc # "ivrv") =>
             LET ratio == vs.analysis.iv30_rv30
                 p == iv_rv_pass_threshold
                 n == iv_rv_near_miss_threshold
                 failed == vs'.failed_checks =
                               Append(vs.failed_checks, "IV/RV ratio < near miss")
                 near == vs'.near_miss_checks =
                             Append(vs.near_miss_checks, "IV/RV ratio < pass")
                 no_failed == vs'.failed_checks = vs.failed_checks
                 no_near == vs'.near_miss_checks = vs.near_miss_checks
             IN  /\ (ratio # NaN /\ ratio < n) => (failed /\ no_near)
                 /\ (ratio # NaN /\ n <= ratio /\ ratio < p)
                      => (near /\ no_failed)
                 /\ (ratio # NaN /\ ratio >= p) => (no_failed /\ no_near)
        \* the pair is written by the adjustment only, before a validation
        /\ Thresholds' # Thresholds => (vs.pc = "idle" /\ vs'.pc = "ready")
      ]_vars

\* a ratio of 0.99 is a near miss under the pair (1.00, 0.75)
C24_Witness ==
    /\ vs.pc = "classify"
    /\ Thresholds = <<100, 75>>
    /\ vs.analysis.iv30_rv30 = 99
    /\ "IV/RV ratio < pass" \in Range(vs.near_miss_checks)

----------------------------------------------------------------------------
(* the claims about filter_dates *)

FDReturned == fd_call.kind = "returned"

\* s is the list dates in chronological order
Chronological(s, dates) ==
    /\ Len(s) = Len(dates)
    /\ \A i, j \in 1..Len(s) : i < j => s[i] <= s[j]
    /\ \A d \in Range(dates) \cup Range(s) :
          Cardinality({i \in 1..Len(s) : s[i] = d})
              = Cardinality({i \in 1..Len(dates) : dates[i] = d})

\* the prefixes of s whose last date is at least today + 45 days
FarPrefixes(s) == {k \in 1..Len(s) : s[k] >= 45}

\* what the claim says filter_dates returns for the sorted list s
ClaimedDates(s) ==
    IF FarPrefixes(s) = {} THEN s
    ELSE LET prefix == SubSeq(s, 1, Min(FarPrefixes(s)))
         IN  IF prefix[1] = 0 /\ Len(prefix) > 1
             THEN SubSeq(prefix, 2, Len(prefix))
             ELSE prefix

----------------------------------------------------------------------------
(* the claims about the volatility estimator *)

VolReturned == vol_call.kind = "returned"

\* the Yang-Zhang computation failed numerically: no usable columns, fewer
\* than window + 1 bars, a variance that is nan or not positive
NumericallyFailed(price_data) ==
    \/ price_data.columns # "ohlc"
    \/ price_data.bars < 30 + 1
    \/ price_data.variance = NaN
    \/ price_data.variance <= 0

\* C26: whenever the Yang-Zhang computation fails numerically,
\* yang_zhang_volatility returns the simple-volatility value, not the
\* failed Yang-Zhang value
C26_NumericFailureFallsBack ==
    (VolReturned /\ NumericallyFailed(vol_call.price_data)) =>
        vol_call.out = calculate_simple_volatility(vol_call.price_data).value

\* C27: on one analyzer a fallback warning is emitted at most once, on the
\* first fallback; warnings_shown never goes from true back to false; a
\* later call that falls back returns the fallback value without warning
C27_WarnsOnceLatchNeverReset ==
    [][ /\ warnings_shown => warnings_shown'
        /\ warnings' # warnings => ~warnings_shown
        /\ (warnings_shown /\ vol_call' # vol_call /\ vol_call'.kind = "returned"
              /\ vol_call'.fell_back)
             => /\ warnings' = warnings
                /\ vol_call'.out
                     = calculate_simple_volatility(vol_call'.price_data).value
      ]_vars

----------------------------------------------------------------------------
(* the claims about the merge of the earnings lists *)

\* the call merged lists: all of them, or DoltHub's and Finnhub's
Merged ==
    /\ earnings_call.kind = "returned"
    /\ \/ earnings_call.mode = "all_sources"
       \/ /\ earnings_call.mode = "use_dolthub"
          /\ earnings_call.dolthub \o earnings_call.finnhub # <<>>

\* the lists merged, highest priority first
Sources ==
    IF earnings_call.mode = "all_sources"
    THEN <<earnings_call.dolthub, earnings_call.finnhub,
           earnings_call.investing>>
    ELSE <<earnings_call.dolthub, earnings_call.finnhub>>

Lists(stocks, ticker) == \E k \in DOMAIN stocks : stocks[k].ticker = ticker

TimingIn(stocks, ticker) ==
    stocks[CHOOSE k \in DOMAIN stocks : stocks[k].ticker = ticker].timing

\* the sources that list the ticker, and those that give it a timing
Listing(ticker) == {n \in DOMAIN Sources : Lists(Sources[n], ticker)}
Knowing(ticker) ==
    {n \in Listing(ticker) : TimingIn(Sources[n], ticker) # "Unknown"}

\* C28: in the merged list each ticker appears exactly once, with the timing
\* of the highest-priority source that lists it, or, if that is Unknown,
\* the first timing other than Unknown among the lower-priority sources;
\* Unknown only if every source that lists it says Unknown
C28_MergePrefersKnownTiming ==
    Merged =>
        \A ticker \in EarningsTickers :
            LET places == {k \in DOMAIN earnings_call.out :
                              earnings_call.out[k].ticker = ticker}
                first == Min(Listing(ticker))
            IN  IF Listing(ticker) = {} THEN places = {}
                ELSE /\ Cardinality(places) = 1
                     /\ \A k \in places :
                          LET timing == earnings_call.out[k].timing
                              own == TimingIn(Sources[first], ticker)
                          IN  /\ own # "Unknown" => timing = own
                              /\ (own = "Unknown" /\ Knowing(ticker) # {})
                                   => timing =
                                        TimingIn(Sources[Min(Knowing(ticker))],
                                                 ticker)
                              /\ timing = "Unknown" <=> Knowing(ticker) = {}

\* DoltHub and Finnhub say Unknown, Investing.com gives the timing
C28_Witness ==
    /\ Merged
    /\ earnings_call.mode = "all_sources"
    /\ earnings_call.dolthub = <<[ticker |-> "AAA", timing |-> "Unknown"]>>
    /\ earnings_call.finnhub = <<[ticker |-> "BBB", timing |-> "Pre Market"],
                                 [ticker |-> "AAA", timing |-> "Unknown"]>>
    /\ earnings_call.investing = <<[ticker |-> "AAA", timing |-> "Post Market"]>>
    /\ earnings_call.out = <<[ticker |-> "AAA", timing |-> "Post Market"],
                             [ticker |-> "BBB", timing |-> "Pre Market"]>>

----------------------------------------------------------------------------
(* the claims about the threshold pair *)

----------------------------------------------------------------------------
(* the claims about a win-rate collaborator that gave up *)

\* check_mc_overestimate was called and answered with its default
GotDefaultWinRate ==
    /\ vs.mc_calls = 1
    /\ <<vs.metrics["win_rate"], vs.metrics["win_quarters"]>> = DefaultResult

\* C30: a candidate that passed the hard gates and the price and volume
\* checks and for which the collaborator returned its default (0, 0) is a
\* Fail with a win-rate reason: pass and near_miss false, never Tier 1,
\* Tier 2 or Near-Miss
C30_DefaultWinRateFails ==
    (Done /\ GotDefaultWinRate) =>
        /\ ~vs.result.pass
        /\ ~vs.result.near_miss
        /\ vs.result.tier \notin {1, 2}
        /\ "Winrate < 40%" \in Range(vs.result.reason)

\* everything else was fine: the win rate is the only reason
C30_Witness ==
    /\ Done
    /\ GotDefaultWinRate
    /\ vs.near_miss_checks = <<>>
    /\ vs.result.reason = <<"Winrate < 40%">>

============================================================================
